---- MODULE Spec2Model ----
(***************************************************************************)
(* Lifecycle controller of compute endpoints (control_plane/endpoint.rs): *)
(* the endpoint registry (ComputeControlPlane), the derived status, and   *)
(* the start / stop operations of an Endpoint, together with the          *)
(* supervised compute_ctl processes and their postgres instances; and the *)
(* JWT verification of utils/auth.rs (JwtAuth, SwappableJwtAuth).         *)
(*                                                                         *)
(* Time is measured in milliseconds since the poll loop of the running    *)
(* start call took its start_at instant.                                  *)
(***************************************************************************)
EXTENDS Integers, Sequences, FiniteSets, TLC

VARIABLES
    endpoints,  \* ComputeControlPlane.endpoints: endpoint id -> Endpoint
    disk,       \* per endpoint id: the directory .neon/endpoints/<id>
    procs,      \* spawned compute_ctl processes, indexed by pid
    pc,         \* "idle", or "polling": a start call is suspended in its poll loop
    cur,        \* locals of the start call in flight
    last,       \* outcome of the operation that returned last
    creating,   \* create calls between their conflict check and new_endpoint
    jwt,        \* SwappableJwtAuth: the installed JwtAuth and the decode calls
    env_key,    \* the key pair in the key files of the environment
    access,     \* safekeeper AccessService: next_guard_id and guards
    manager,    \* the manager's channel, and the ResidenceGuards that are held
    guard_log   \* history of the guard service: ids issued, sends, ids handled

vars == <<endpoints, disk, procs, pc, cur, last, creating, jwt, env_key,
          access, manager, guard_log>>

----------------------------------------------------------------------------
\* Bounds of the model

MaxSpawns == 2          \* processes spawned in one behaviour
MaxPort == 55435        \* largest port get_port may hand out
MaxLatencySteps == 1    \* a status request lasts 0..MaxLatencySteps steps of 50ms
MaxKeys == 2            \* decoding keys of one JwtAuth
MaxSwaps == 2           \* swaps of the SwappableJwtAuth in one behaviour
MaxKeyPairs == 2        \* key pairs the environment's key files hold in turn
MaxGuards == 3          \* residence guards issued in one behaviour
MaxStrayDrops == 1      \* drop_guard calls made without a GuardDrop message

\* Program constants

base_port == 55431

\* (variant: the loop sleeps twice as long between polls)
ATTEMPT_INTERVAL_Slow == 2 * 100

ATTEMPT_INTERVAL == 100

----------------------------------------------------------------------------
\* Input domains

EndpointIds == {"ep1", "ep2"}
Tenants == {"t1"}
Modes == {"Primary", "Static", "Replica"}
\* The (timeline, mode) pairs endpoints are created with
CreateProfiles == {<<"tl1", "Primary">>, <<"tl2", "Primary">>,
                   <<"tl1", "Replica">>, <<"tl1", "Static">>}
StartTimeouts == {0, 200}
Latencies == {50 * k : k \in 0..MaxLatencySteps}

\* LocalEnv.safekeepers: the configured safekeeper nodes
env_safekeepers == <<[id |-> 1, compute_port |-> 5454], [id |-> 2, compute_port |-> 5455]>>

ComputeStatus ==
    {"Empty", "ConfigurationPending", "Init", "Running", "Configuration",
     "Failed", "TerminationPendingFast", "TerminationPendingImmediate",
     "Terminated", "RefreshConfigurationPending", "RefreshConfiguration"}

\* The ways get_status fails: the token cannot be minted, the request cannot
\* be sent (connection refused), the answer is a 4xx/5xx, the body of the
\* answer does not decode
StatusErrors == {"token", "connect", "http", "decode"}

\* Outcomes of one get_status call
StatusResponses ==
    [kind : {"ok"}, status : ComputeStatus \ {"Failed"}, error : {<<>>}]
    \cup [kind : {"ok"}, status : {"Failed"}, error : {<<>>, <<"boom">>}]
    \cup [kind : {"err"}, status : StatusErrors, error : {<<>>}]

TerminateModes == {"Fast", "Immediate", "ImmediateTerminate"}

\* The unsharded topology built by local_pageserver_conf_to_conn_info
UnshardedConnInfo ==
    [shard_count |-> 0, stripe_size |-> 0,
     shards |-> (<<0, 0>> :> <<[libpq_url |-> <<"A">>]>>)]

StartArgs ==
    [start_timeout : StartTimeouts, create_test_user : {FALSE},
     safekeepers : {<<1>>}, safekeepers_generation : {0},
     pageserver_conninfo : {UnshardedConnInfo}]

\* The inputs of start used where the poll loop is not under study
QuickStartArgs == {a \in StartArgs : a.start_timeout = 0}
QuickResponses == {r \in StatusResponses : r.status = "Running"}

\* PageserverConnectionInfo values handed to reconfigure: one with no shard,
\* one naming another pageserver and a stripe size
EmptyConnInfo == [shard_count |-> 0, stripe_size |-> 0, shards |-> [x \in {} |-> <<>>]]
MovedConnInfo ==
    [shard_count |-> 0, stripe_size |-> 8,
     shards |-> (<<0, 0>> :> <<[libpq_url |-> <<"B">>]>>)]

\* A pageserver of a shard, with or without a libpq URL
Pageserver(libpq_url) == [libpq_url |-> libpq_url]

\* Topologies handed to start: unsharded, two shards with URLs (the first with
\* a second replica), a second shard without URL, a first shard without URL
\* and the second shard missing, a missing second shard, a shard without
\* pageservers
BuildConnInfos ==
    {UnshardedConnInfo,
     [shard_count |-> 2, stripe_size |-> 8,
      shards |-> (<<0, 2>> :> <<Pageserver(<<"A">>), Pageserver(<<"C">>)>>)
                 @@ (<<1, 2>> :> <<Pageserver(<<"B">>)>>)],
     [shard_count |-> 2, stripe_size |-> 8,
      shards |-> (<<0, 2>> :> <<Pageserver(<<"A">>)>>)
                 @@ (<<1, 2>> :> <<Pageserver(<<>>), Pageserver(<<"B">>)>>)],
     [shard_count |-> 2, stripe_size |-> 8,
      shards |-> (<<0, 2>> :> <<Pageserver(<<>>)>>)],
     [shard_count |-> 2, stripe_size |-> 8,
      shards |-> (<<0, 2>> :> <<Pageserver(<<"A">>)>>)],
     [shard_count |-> 2, stripe_size |-> 8,
      shards |-> (<<0, 2>> :> <<Pageserver(<<"A">>)>>) @@ (<<1, 2>> :> <<>>)]}

\* The inputs of start where the ComputeSpec it builds is under study
BuildStartArgs ==
    [start_timeout : {0}, create_test_user : BOOLEAN,
     safekeepers : {<<1>>, <<2, 1>>, <<1, 9>>}, safekeepers_generation : {0},
     pageserver_conninfo : BuildConnInfos]

\* The cluster settings found in an endpoint.json that was edited
ClusterOverrides ==
    {[roles |-> <<>>, databases |-> <<>>, postgresql_conf |-> <<>>],
     [roles |-> <<"admin">>, databases |-> <<[name |-> "db1", owner |-> "admin"]>>,
      postgresql_conf |-> <<[port |-> 1, replication |-> "stale"]>>]}

\* The arguments of reconfigure: Option values, <<>> for None
ReconfigureConnInfos == {<<>>, <<EmptyConnInfo>>, <<MovedConnInfo>>}
ReconfigureSafekeepers == {<<>>, << <<2>> >>, << <<9>> >>}
ReconfigureGenerations == {<<>>, <<7>>}

\* The answers to the configure request: the send fails, or the live process
\* answers with a status code and a body that can be read or not
ConfigureResponses ==
    [kind : {"err"}, code : {0}, body_ok : {TRUE}]
    \cup [kind : {"http"}, code : {101, 200, 204, 304, 404, 500}, body_ok : BOOLEAN]

\* The data port given to create: 0 for none (a port is allocated)
CreatePorts == {0, 55440}

\* What can go wrong with one entry of the endpoints directory during load: it
\* is gone when it is looked at, reading it fails otherwise, endpoint.json
\* does not parse, the entry is not a directory
LoadFaults == {"none", "vanished", "io", "parse", "not_dir"}

\* What may go wrong in stop up to its primary action: the token cannot be
\* made, /terminate is answered with an error or with a text that does not
\* parse, pg_ctl cannot be run or exits with an error
StopFaults == {"none", "token", "terminate", "pg_ctl"}

\* What may go wrong in the wait of stop: compute_ctl.pid does not parse
StopWaitFaults == {"none", "parse_pidfile"}

\* What may go wrong at the end of stop: remove_dir_all fails
StopRemoveFaults == {"none", "rm_dir"}

\* How compute_ctl behaves while wait_until_stopped polls: it leaves on its
\* own, it leaves only on SIGTERM, it is still there when the wait gives up
ExitBehaviours == {"alone", "on_sigterm", "never"}

ReconfigureFaults == {"none", "open_config", "read_conf", "token"}

StartFaults ==
    {"none", "read_conf", "rm_pgdata", "rm_pgdata_partial", "write_config",
     "write_config_torn", "open_log", "spawn", "write_pidfile", "write_pidfile_torn",
     "write_pidfile_cut"}

\* (write_meta, write_conf: the file cannot be opened; _torn: the write fails
\* after the file was opened and truncated, with nothing written; _cut: it
\* fails with a part of the text written: whole lines, and of the next line
\* nothing or a piece)
CreateFaults ==
    {"none", "public_key", "mkdir", "write_meta", "write_meta_torn", "write_conf",
     "write_conf_torn", "write_conf_cut"}

----------------------------------------------------------------------------
\* Helpers

Max(a, b) == IF a >= b THEN a ELSE b

RECURSIVE SetMax(_)
SetMax(S) ==
    IF S = {} THEN 0
    ELSE LET x == CHOOSE y \in S : TRUE
         IN  Max(x, SetMax(S \ {x}))

\* torn: the files that exist but hold an empty or cut-off text which does
\* not parse
EmptyDir ==
    [dir |-> FALSE, meta |-> <<>>, pgconf |-> <<>>, pgdata |-> FALSE,
     marker |-> FALSE, config |-> <<>>, pidfile |-> 0, ctl_config |-> <<>>,
     torn |-> {}]

\* std::fs::write, or File::create and a write, that fails after the file was
\* opened with truncation: the file is there, what it held is gone, and it
\* holds kept, a proper prefix of the text that was being written.  No proper
\* prefix of a JSON document parses; a prefix of postgresql.conf is read as
\* it is; of a pid the leading digits parse as another pid, and no digit at
\* all (0) does not parse
Truncated(d, file, kept) ==
    CASE file = "endpoint.json" ->
             [d EXCEPT !.meta = <<>>, !.torn = d.torn \cup {file}]
      [] file = "postgresql.conf" -> [d EXCEPT !.pgconf = kept]
      [] file = "config.json" ->
             [d EXCEPT !.config = <<>>, !.ctl_config = <<>>, !.torn = d.torn \cup {file}]
      [] file = "compute_ctl.pid" ->
             [d EXCEPT !.pidfile = kept,
                       !.torn = IF kept = 0 THEN d.torn \cup {file} ELSE d.torn \ {file}]

\* What remove_dir_all may have removed when it fails: the entries it visited
\* before the one it failed at, in whatever order the directory lists them
RemovableSets ==
    {r \in SUBSET {"endpoint.json", "postgresql.conf", "config.json", "compute_ctl.pid",
                   "postmaster.pid", "pgdata"} :
        "pgdata" \in r => "postmaster.pid" \in r}

NoResp == [kind |-> "", status |-> "", error |-> <<>>]

\* resp: the status response handled last; seen: the responses after which the
\* loop polled again ("Init", "connect" for a refused connection, "err" for a
\* request that failed otherwise)
NoStartArgs ==
    [start_timeout |-> 0, create_test_user |-> FALSE, safekeepers |-> <<>>,
     safekeepers_generation |-> 0, pageserver_conninfo |-> EmptyConnInfo]

NoCall == [ep |-> "", timeout |-> 0, elapsed |-> 0, child |-> 0, trace |-> <<>>,
           resp |-> NoResp, seen |-> {}, args |-> NoStartArgs,
           mode |-> "", destroy |-> FALSE]

NoArgs == [tenant_id |-> "", timeline_id |-> "", mode |-> "", start_timeout |-> 0,
           pageserver_conninfo |-> <<>>, safekeepers |-> <<>>,
           safekeeper_generation |-> <<>>, destroy |-> FALSE, faults |-> <<>>,
           create_test_user |-> FALSE]

\* What a returned operation leaves behind: its arguments, its result, the
\* time spent in the poll loop, the steps it performed (trace), the body of the
\* configure request it issued (pushed) and the status code of the answer
\* (http), the registry it built (loaded)
Outcome(op, e, result, msg, elapsed, child, trace) ==
    [op |-> op, ep |-> e, args |-> NoArgs, result |-> result, msg |-> msg,
     elapsed |-> elapsed, child |-> child, trace |-> trace,
     resp |-> NoResp, seen |-> {}, seq |-> 0,
     pushed |-> <<>>, http |-> 0, loaded |-> <<>>, bundle |-> <<>>, token |-> <<>>]

CreateOutcome(e, tenant_id, timeline_id, mode, result, msg) ==
    [Outcome("create", e, result, msg, 0, 0, <<>>) EXCEPT
        !.args = [NoArgs EXCEPT !.tenant_id = tenant_id, !.timeline_id = timeline_id,
                                !.mode = mode]]

StartOutcome(e, args, result, msg, elapsed, child, trace, resp, seen) ==
    [Outcome("start", e, result, msg, elapsed, child, trace) EXCEPT
        !.args = [NoArgs EXCEPT !.start_timeout = args.start_timeout,
                                !.create_test_user = args.create_test_user,
                                !.pageserver_conninfo = <<args.pageserver_conninfo>>,
                                !.safekeepers = <<args.safekeepers>>,
                                !.safekeeper_generation = <<args.safekeepers_generation>>],
        !.resp = resp, !.seen = seen]

NoOutcome == Outcome("", "", "", "", 0, 0, <<>>)

Pids == DOMAIN procs

\* A TCP connect to the port succeeds: a postgres is listening on it, or a
\* running compute_ctl serves one of its HTTP APIs on it
CanConnect(port) ==
    \E p \in Pids :
        \/ procs[p].pgUp /\ procs[p].pg_port = port
        \/ /\ procs[p].state = "running"
           /\ port \in {procs[p].external_http_port, procs[p].internal_http_port}

----------------------------------------------------------------------------
\* Endpoint::status

\* (variant: the Crashed and RunningNoPidfile arms exchanged)
StatusOf_Swapped(has_pidfile, can_connect) ==
    IF has_pidfile
    THEN (IF can_connect THEN "Running" ELSE "RunningNoPidfile")
    ELSE (IF can_connect THEN "Crashed" ELSE "Stopped")

StatusOf(has_pidfile, can_connect) ==
    IF has_pidfile
    THEN (IF can_connect THEN "Running" ELSE "Crashed")
    ELSE (IF can_connect THEN "RunningNoPidfile" ELSE "Stopped")

status(e) ==
    StatusOf(disk[e].pgdata /\ disk[e].marker, CanConnect(endpoints[e].pg_port))

----------------------------------------------------------------------------
\* ComputeControlPlane

\* (variant: only the data ports are looked at)
get_port_DataOnly ==
    1 + (IF DOMAIN endpoints = {} THEN base_port
         ELSE SetMax({endpoints[e].pg_port : e \in DOMAIN endpoints}))

get_port ==
    1 + (IF DOMAIN endpoints = {} THEN base_port
         ELSE SetMax({Max(endpoints[e].pg_port, endpoints[e].external_http_port)
                        : e \in DOMAIN endpoints}))

\* Endpoint::from_dir_entry on the entry named e
from_dir_entry(e, fault) ==
    IF fault = "vanished" THEN [res |-> "not_found", ep |-> <<>>]
    ELSE IF fault = "io" THEN [res |-> "io", ep |-> <<>>]
    ELSE IF fault = "not_dir" \/ ~disk[e].dir THEN [res |-> "other", ep |-> <<>>]
    ELSE IF disk[e].meta = <<>>
      THEN [res |-> IF "endpoint.json" \in disk[e].torn THEN "other" ELSE "not_found",
            ep |-> <<>>]
    ELSE IF fault = "parse" THEN [res |-> "other", ep |-> <<>>]
    ELSE [res |-> "ok", ep |-> disk[e].meta]

\* (variant: every I/O error skips the entry)
Tolerated_AnyIo(res) == res \in {"not_found", "io"}

\* The errors of from_dir_entry after which load goes on to the next entry
Tolerated(res) == res = "not_found"

\* endpoints.insert for each of the entries read
RECURSIVE Inserted(_, _)
Inserted(entries, read) ==
    IF entries = {} THEN <<>>
    ELSE LET e == CHOOSE x \in entries : TRUE
         IN  (e :> read[e].ep[1]) @@ Inserted(entries \ {e}, read)

\* ComputeControlPlane::load; faults: what goes wrong with each entry
load(faults) ==
    LET entries == {e \in EndpointIds : disk[e].dir \/ faults[e] = "not_dir"}
        read == [e \in entries |-> from_dir_entry(e, faults[e])]
        fatal == \E e \in entries : read[e].res # "ok" /\ ~Tolerated(read[e].res)
        registry == Inserted({e \in entries : read[e].res = "ok"}, read)
        o == [Outcome("load", "", IF fatal THEN "load_failed" ELSE "ok", "", 0, 0, <<>>)
                 EXCEPT !.args = [NoArgs EXCEPT !.faults = faults],
                        !.loaded = IF fatal THEN <<>> ELSE <<registry>>]
    IN  /\ pc = "idle"
        /\ \A e \in EndpointIds :
              faults[e] \in (IF disk[e].dir THEN LoadFaults \ {"not_dir"}
                             ELSE {"none", "not_dir"})
        /\ endpoints' = IF fatal THEN endpoints ELSE registry
        /\ last' = o
        /\ UNCHANGED <<disk, procs, pc, cur>>

\* (variant: only a Running endpoint counts as a conflict)
check_conflicting_endpoints_RunningOnly(mode, tenant_id, timeline_id) ==
    IF mode = "Primary"
    THEN ~ \E k \in DOMAIN endpoints :
              /\ endpoints[k].tenant_id = tenant_id
              /\ endpoints[k].timeline_id = timeline_id
              /\ endpoints[k].mode = mode
              /\ status(k) = "Running"
    ELSE TRUE

check_conflicting_endpoints(mode, tenant_id, timeline_id) ==
    IF mode = "Primary"
    THEN ~ \E k \in DOMAIN endpoints :
              /\ endpoints[k].tenant_id = tenant_id
              /\ endpoints[k].timeline_id = timeline_id
              /\ endpoints[k].mode = mode
              /\ status(k) # "Stopped"
    ELSE TRUE

\* Endpoint::setup_pg_conf: the generated postgresql.conf, its lines in the
\* order they are appended, a setting being <<name, value>> and the empty
\* line <<"", "">>.  (The lsn of a Static endpoint is not modelled; the
\* endpoints are of a postgres version from 15 on.)
setup_pg_conf(ep) ==
    LET sk_ports == [i \in DOMAIN env_safekeepers |-> env_safekeepers[i].compute_port]
        sk_hosts == [i \in DOMAIN env_safekeepers |-> "localhost"]
    IN  << <<"max_wal_senders", "10">>,
           <<"wal_log_hints", "off">>,
           <<"max_replication_slots", "10">>,
           <<"hot_standby", "on">>,
           <<"shared_buffers", "1MB">>,
           <<"effective_io_concurrency", "2">>,
           <<"fsync", "off">>,
           <<"max_connections", "100">>,
           <<"wal_level", "logical">>,
           <<"wal_sender_timeout", "5s">>,
           <<"listen_addresses", "127.0.0.1">>,
           <<"port", ep.pg_port>>,
           <<"wal_keep_size", "0">>,
           <<"restart_after_crash", "off">>,
           <<"shared_preload_libraries", "neon">>,
           <<"", "">> >>
        \o CASE ep.mode = "Primary" ->
                   << <<"max_replication_write_lag", "15MB">>,
                      <<"max_replication_flush_lag", "10GB">> >>
                   \o (IF Len(env_safekeepers) > 0
                       THEN << <<"synchronous_standby_names", "walproposer">>,
                               <<"neon.safekeepers",
                                 [i \in DOMAIN env_safekeepers |->
                                     <<sk_hosts[i], sk_ports[i]>>]>> >>
                       ELSE << <<"synchronous_commit", "remote_write">>,
                               <<"synchronous_standby_names", "pageserver">> >>)
             [] ep.mode = "Static" -> << <<"recovery_target_lsn", "lsn">> >>
             [] OTHER ->
                   << <<"primary_conninfo",
                        [host |-> sk_hosts, port |-> sk_ports,
                         timeline_id |-> ep.timeline_id, tenant_id |-> ep.tenant_id]>>,
                      <<"primary_slot_name", <<"repl_", ep.timeline_id, "_">>>>,
                      <<"hot_standby", "on">>,
                      <<"recovery_prefetch", "off">> >>

\* LocalEnv::read_public_key: the public key of the key pair in the key files
read_public_key == env_key

\* ComputeControlPlane::create_jwks_from_pem: the key set holding the one key
create_jwks_from_pem(public_key) == <<[kty |-> "OKP", key |-> public_key]>>

NewEndpointRecord(endpoint_id, tenant_id, timeline_id, pg_port, external_http_port, internal_http_port, mode) ==
    LET pg == IF pg_port = 0 THEN get_port ELSE pg_port
        ext == IF external_http_port = 0 THEN get_port + 1 ELSE external_http_port
        int == IF internal_http_port = 0 THEN ext + 1 ELSE internal_http_port
    IN  [endpoint_id |-> endpoint_id, tenant_id |-> tenant_id,
         timeline_id |-> timeline_id, mode |-> mode, pg_port |-> pg,
         external_http_port |-> ext, internal_http_port |-> int,
         cluster |-> <<>>,
         compute_ctl_config |-> [jwks |-> create_jwks_from_pem(read_public_key),
                                 tls |-> <<>>]]

\* (variant: a directory that exists is an error)
create_endpoint_dir_Exclusive(d, fault) == fault # "mkdir" /\ ~d.dir

\* Endpoint::create_endpoint_dir succeeds: create_dir_all accepts a directory
\* that exists
create_endpoint_dir(d, fault) == fault # "mkdir"

\* (variant: the endpoint is not put into the registry)
Insert_Dropped(registry, endpoint_id, ep) == registry

\* self.endpoints.insert
Insert(registry, endpoint_id, ep) == (endpoint_id :> ep) @@ registry

\* ComputeControlPlane::new_endpoint; fault names the first step that fails
new_endpoint(endpoint_id, tenant_id, timeline_id, pg_port, external_http_port, internal_http_port, mode, fault) ==
    LET ep == NewEndpointRecord(endpoint_id, tenant_id, timeline_id, pg_port,
                                external_http_port, internal_http_port, mode)
        d0 == disk[endpoint_id]
        d1 == [d0 EXCEPT !.dir = TRUE]
        d2 == [d1 EXCEPT !.meta = <<ep>>, !.torn = d1.torn \ {"endpoint.json"}]
        text == setup_pg_conf(ep)
        d3 == [d2 EXCEPT !.pgconf = <<text>>]
        \* What there is of the line at which a write broke off: nothing; a
        \* part of the name, <<name>>; or the name, the = and a proper prefix
        \* of the value, <<name, value, "cut">>.  Of the port the digits that
        \* are there are a port setting themselves, and 0 is no digit
        Piece(line, part, digits) ==
            CASE part = "name" -> << <<line[1]>> >>
              [] part = "value" /\ line[1] = "port" ->
                     << <<line[1], line[2] \div 10^digits>> >>
              [] part = "value" -> << <<line[1], line[2], "cut">> >>
              [] OTHER -> <<>>
        Fail(d, msg) ==
            /\ disk' = [disk EXCEPT ![endpoint_id] = d]
            /\ endpoints' = endpoints
            /\ last' = CreateOutcome(endpoint_id, tenant_id, timeline_id, mode,
                                      "io_error", msg)
    IN  /\ get_port <= MaxPort
        /\ CASE fault = "public_key" -> Fail(d0, fault)
             [] ~create_endpoint_dir(d0, fault) -> Fail(d0, "mkdir")
             [] fault = "write_meta" -> Fail(d1, fault)
             [] fault = "write_meta_torn" -> Fail(Truncated(d1, "endpoint.json", <<>>), fault)
             [] fault = "write_conf" -> Fail(d2, fault)
             [] fault = "write_conf_torn" -> Fail(Truncated(d2, "postgresql.conf", <<>>), fault)
             [] fault = "write_conf_cut" ->
                  \E k \in 0..(Len(text) - 1), part \in {"none", "name", "value"},
                     digits \in 1..5 :
                     LET kept == SubSeq(text, 1, k) \o Piece(text[k + 1], part, digits)
                     IN  /\ kept # <<>>
                         /\ part # "none" => text[k + 1][1] # ""
                         /\ (digits > 1 => part = "value" /\ text[k + 1][1] = "port")
                         /\ Fail(Truncated(d2, "postgresql.conf", <<kept>>), fault)
             [] OTHER ->
                  /\ disk' = [disk EXCEPT ![endpoint_id] = d3]
                  /\ endpoints' = Insert(endpoints, endpoint_id, ep)
                  /\ last' = CreateOutcome(endpoint_id, tenant_id, timeline_id, mode,
                                            "ok", "")

\* The create operation: the conflict check, then new_endpoint
Create(endpoint_id, tenant_id, timeline_id, pg_port, mode, fault) ==
    /\ pc = "idle"
    /\ IF check_conflicting_endpoints(mode, tenant_id, timeline_id)
       THEN new_endpoint(endpoint_id, tenant_id, timeline_id, pg_port, 0, 0, mode, fault)
       ELSE /\ last' = CreateOutcome(endpoint_id, tenant_id, timeline_id, mode,
                                      "duplicate_primary", "")
            /\ UNCHANGED <<endpoints, disk>>
    /\ UNCHANGED <<procs, pc, cur>>

\* Create calls made by several processes at once. Each process has loaded
\* its own registry; endpoints is the registry of the process that runs, and
\* creating keeps, for every process that has passed the conflict check, its
\* arguments and its registry. raced: at the time of new_endpoint another
\* process had registered a Primary endpoint of the same timeline and that
\* endpoint was not stopped.

\* The conflict check of a create call, made on the registry the process loaded
CreateCheck(endpoint_id, tenant_id, timeline_id, mode) ==
    /\ pc = "idle"
    /\ endpoint_id \notin DOMAIN creating
    /\ ~disk[endpoint_id].dir
    /\ IF check_conflicting_endpoints(mode, tenant_id, timeline_id)
       THEN /\ creating' = (endpoint_id :>
                              [tenant_id |-> tenant_id, timeline_id |-> timeline_id,
                               mode |-> mode, state |-> "checked",
                               registry |-> endpoints, raced |-> FALSE]) @@ creating
            /\ last' = last
       ELSE /\ last' = CreateOutcome(endpoint_id, tenant_id, timeline_id, mode,
                                      "duplicate_primary", "")
            /\ creating' = creating
    /\ UNCHANGED <<endpoints, disk, procs, pc, cur, jwt, env_key, access, manager, guard_log>>

\* The process of a create call that passed its check is the one that runs
Schedule(endpoint_id) ==
    /\ pc = "idle"
    /\ endpoint_id \in DOMAIN creating
    /\ creating[endpoint_id].state = "checked"
    /\ endpoints # creating[endpoint_id].registry
    /\ endpoints' = creating[endpoint_id].registry
    /\ UNCHANGED <<disk, procs, pc, cur, last, creating, jwt, env_key, access, manager, guard_log>>

\* The filter of check_conflicting_endpoints run over the endpoints that are
\* on disk now, the caller's own apart: for a Primary, another endpoint of the
\* same tenant, timeline and mode whose status is not Stopped
RegisteredByOther(endpoint_id, mode, tenant_id, timeline_id) ==
    /\ mode = "Primary"
    /\ \E k \in EndpointIds \ {endpoint_id} :
          /\ disk[k].meta # <<>>
          /\ disk[k].meta[1].tenant_id = tenant_id
          /\ disk[k].meta[1].timeline_id = timeline_id
          /\ disk[k].meta[1].mode = mode
          /\ StatusOf(disk[k].pgdata /\ disk[k].marker,
                      CanConnect(disk[k].meta[1].pg_port)) # "Stopped"

\* new_endpoint of a create call that passed its check
CreateCommit(endpoint_id) ==
    /\ pc = "idle"
    /\ endpoint_id \in DOMAIN creating
    /\ creating[endpoint_id].state = "checked"
    /\ endpoints = creating[endpoint_id].registry
    /\ new_endpoint(endpoint_id, creating[endpoint_id].tenant_id,
                    creating[endpoint_id].timeline_id, 0, 0, 0,
                    creating[endpoint_id].mode, "none")
    /\ creating' = [creating EXCEPT
                      ![endpoint_id].state = "done",
                      ![endpoint_id].registry = <<>>,
                      ![endpoint_id].raced =
                          RegisteredByOther(endpoint_id, creating[endpoint_id].mode,
                                            creating[endpoint_id].tenant_id,
                                            creating[endpoint_id].timeline_id)]
    /\ UNCHANGED <<procs, pc, cur, jwt, env_key, access, manager, guard_log>>

----------------------------------------------------------------------------
\* Endpoint: helpers of start

\* Endpoint::read_postgresql_conf: a missing file reads as the empty text
read_postgresql_conf(e) == disk[e].pgconf

Found(sk_id) == {i \in 1..Len(env_safekeepers) : env_safekeepers[i].id = sk_id}

RECURSIVE SkConnstrs(_)
SkConnstrs(sk_ids) ==
    IF sk_ids = <<>> THEN [ok |-> TRUE, val |-> <<>>]
    ELSE IF Found(Head(sk_ids)) = {} THEN [ok |-> FALSE, val |-> <<>>]
    ELSE LET sk == env_safekeepers[CHOOSE i \in Found(Head(sk_ids)) :
                                      \A j \in Found(Head(sk_ids)) : i <= j]
             rest == SkConnstrs(Tail(sk_ids))
         IN  IF rest.ok
             THEN [ok |-> TRUE, val |-> <<<<"127.0.0.1", sk.compute_port>>>> \o rest.val]
             ELSE rest

\* (variant: the mode is not looked at)
build_safekeepers_connstrs_AnyMode(mode, sk_ids) == SkConnstrs(sk_ids)

\* Endpoint::build_safekeepers_connstrs
build_safekeepers_connstrs(mode, sk_ids) ==
    IF mode = "Primary" THEN SkConnstrs(sk_ids) ELSE [ok |-> TRUE, val |-> <<>>]

\* ShardCount::count
ShardCountCount(shard_count) == IF shard_count > 0 THEN shard_count ELSE 1

\* join(","): the pieces with a separator between neighbours
RECURSIVE JoinComma(_)
JoinComma(strs) ==
    IF Len(strs) <= 1 THEN strs
    ELSE <<Head(strs), ",">> \o JoinComma(Tail(strs))

\* The closure computing pageserver_connstring in start, from shard shard_no on.
\* res: "err", "none" (Ok(None)) or "some" (Ok(Some(urls joined)))
RECURSIVE ConnstringFrom(_, _, _)
ConnstringFrom(conninfo, shard_no, connstrings) ==
    IF shard_no >= ShardCountCount(conninfo.shard_count)
    THEN [res |-> "some", val |-> JoinComma(connstrings)]
    ELSE LET shard_index == <<shard_no, conninfo.shard_count>>
         IN  IF shard_index \notin DOMAIN conninfo.shards
             THEN [res |-> "err", val |-> <<>>]
             ELSE IF conninfo.shards[shard_index] = <<>>
             THEN [res |-> "err", val |-> <<>>]
             ELSE LET pageserver == Head(conninfo.shards[shard_index])
                  IN  IF pageserver.libpq_url # <<>>
                      THEN ConnstringFrom(conninfo, shard_no + 1,
                                          Append(connstrings, pageserver.libpq_url[1]))
                      ELSE [res |-> "none", val |-> <<>>]

\* (variant: the URLs gathered before the first shard without one are joined)
pageserver_connstring_Partial(conninfo) ==
    LET whole == ConnstringFrom(conninfo, 0, <<>>)
        with_url == {i \in 0..(ShardCountCount(conninfo.shard_count) - 1) :
                       \A j \in 0..i :
                          /\ <<j, conninfo.shard_count>> \in DOMAIN conninfo.shards
                          /\ conninfo.shards[<<j, conninfo.shard_count>>] # <<>>
                          /\ Head(conninfo.shards[<<j, conninfo.shard_count>>]).libpq_url # <<>>}
    IN  IF whole.res # "none" THEN whole
        ELSE [res |-> "some",
              val |-> JoinComma([k \in 1..Cardinality(with_url) |->
                         Head(conninfo.shards[<<k - 1, conninfo.shard_count>>]).libpq_url[1]])]

\* The closure called: Option<String>, or the error returned by start
pageserver_connstring(conninfo) == ConnstringFrom(conninfo, 0, <<>>)

TestRoles == <<"test">>
TestDatabases == <<[name |-> "neondb", owner |-> "test"]>>

\* (variant: the cluster settings of the endpoint are taken as they are)
FillMissingFields_Untouched(cluster, create_test_user, postgresql_conf) == cluster

\* "fill missing fields again": the cluster settings of the endpoint with the
\* test role and database pushed and postgresql_conf replaced
FillMissingFields(cluster, create_test_user, postgresql_conf) ==
    [roles |-> cluster.roles \o (IF create_test_user THEN TestRoles ELSE <<>>),
     databases |-> cluster.databases
                     \o (IF create_test_user THEN TestDatabases ELSE <<>>),
     postgresql_conf |-> postgresql_conf]

\* The ComputeSpec assembled by start
BuildSpec(e, args, postgresql_conf, safekeeper_connstrings, connstring) ==
    LET ep == endpoints[e]
        fresh == [roles |-> IF args.create_test_user THEN TestRoles ELSE <<>>,
                  databases |-> IF args.create_test_user THEN TestDatabases ELSE <<>>,
                  postgresql_conf |-> postgresql_conf]
        cluster ==
            IF ep.cluster # <<>>
            THEN FillMissingFields(ep.cluster[1], args.create_test_user, postgresql_conf)
            ELSE fresh
    IN  [cluster |-> cluster,
         tenant_id |-> ep.tenant_id, timeline_id |-> ep.timeline_id,
         endpoint_id |-> ep.endpoint_id, mode |-> ep.mode,
         pageserver_connection_info |-> args.pageserver_conninfo,
         pageserver_connstring |-> connstring,
         safekeepers_generation |-> args.safekeepers_generation,
         safekeeper_connstrings |-> safekeeper_connstrings,
         shard_stripe_size |-> args.pageserver_conninfo.stripe_size]

----------------------------------------------------------------------------
\* The scopeguard around the spawned child

\* (variant: the closure does not kill the child)
GuardFire_NoKill(ps, pid) == [ps EXCEPT ![pid].guard = "fired"]

\* The guard's closure: child.kill() then child.wait()
GuardFire(ps, pid) == [ps EXCEPT ![pid].state = "reaped", ![pid].guard = "fired"]

\* (variant: the guard is dropped armed at the success exit)
GuardDisarm_Dropped(ps, pid) == [ps EXCEPT ![pid].state = "reaped", ![pid].guard = "fired"]

\* ScopeGuard::into_inner: the closure will not run
GuardDisarm(ps, pid) == [ps EXCEPT ![pid].guard = "disarmed"]

Return(o) == /\ last' = o
             /\ pc' = "idle"
             /\ cur' = NoCall

----------------------------------------------------------------------------
\* Endpoint::start, from the call to its first suspension in get_status

\* (variant: config.json is not written)
PersistSpec_Skipped(d, spec, compute_ctl_config) == d

\* std::fs::write of config.json
PersistSpec(d, spec, compute_ctl_config) ==
    [d EXCEPT !.config = <<spec>>, !.ctl_config = <<compute_ctl_config>>,
              !.torn = d.torn \ {"config.json"}]

\* (variant: the wrong status is compared)
AlreadyRunning_Crashed(e) == status(e) = "Crashed"

\* The test at the head of start
AlreadyRunning(e) == status(e) = "Running"

\* (variant: compute_ctl.pid is not written)
write_pidfile_Skipped(d, pid) == d

\* std::fs::write(pidfile_path, pid.to_string())
write_pidfile(d, pid) == [d EXCEPT !.pidfile = pid, !.torn = d.torn \ {"compute_ctl.pid"}]

\* std::fs::remove_dir_all that fails: the entries visited before the failing
\* one are gone, the directory itself stays.  Of pgdata the model keeps one
\* entry, postmaster.pid
remove_dir_all_partly(d, removed) ==
    [d EXCEPT !.meta = IF "endpoint.json" \in removed THEN <<>> ELSE @,
              !.pgconf = IF "postgresql.conf" \in removed THEN <<>> ELSE @,
              !.config = IF "config.json" \in removed THEN <<>> ELSE @,
              !.ctl_config = IF "config.json" \in removed THEN <<>> ELSE @,
              !.pidfile = IF "compute_ctl.pid" \in removed THEN 0 ELSE @,
              !.marker = IF removed \cap {"postmaster.pid", "pgdata"} # {} THEN FALSE ELSE @,
              !.pgdata = IF "pgdata" \in removed THEN FALSE ELSE @,
              !.torn = @ \ removed]

\* child.id() is the pid the system gave the child: 11, 12, ... here, of two
\* digits, so that a pid file whose write broke off can hold the first digit
start(e, args, fault) ==
    LET d0 == disk[e]
        rm == d0.pgdata
        d1 == IF rm THEN [d0 EXCEPT !.pgdata = FALSE, !.marker = FALSE] ELSE d0
        t1 == IF rm THEN <<"rm_pgdata">> ELSE <<>>
        postgresql_conf == read_postgresql_conf(e)
        sk == build_safekeepers_connstrs(endpoints[e].mode, args.safekeepers)
        cs == pageserver_connstring(args.pageserver_conninfo)
        spec == BuildSpec(e, args, postgresql_conf, sk.val,
                          IF cs.res = "some" THEN <<cs.val>> ELSE <<>>)
        d2 == PersistSpec(d1, spec, endpoints[e].compute_ctl_config)
        t2 == Append(t1, "write_config")
        pid == 11 + Cardinality(Pids)
        child == [ep |-> e, pg_port |-> endpoints[e].pg_port,
                  external_http_port |-> endpoints[e].external_http_port,
                  internal_http_port |-> endpoints[e].internal_http_port,
                  state |-> "running", pgUp |-> FALSE, guard |-> "armed"]
        spawned == (pid :> child) @@ procs
        t3 == Append(t2, "spawn")
        d3 == write_pidfile(d2, pid)
        Fail(d, result, trace) ==
            /\ disk' = [disk EXCEPT ![e] = d]
            /\ procs' = procs
            /\ Return(StartOutcome(e, args, result, fault, 0, 0, trace, NoResp, {}))
    IN  /\ pc = "idle"
        /\ e \in DOMAIN endpoints
        /\ AlreadyRunning(e) \/ Cardinality(Pids) < MaxSpawns
        /\ UNCHANGED endpoints
        /\ IF AlreadyRunning(e)
             THEN /\ Return(StartOutcome(e, args, "already_running", "", 0, 0, <<>>,
                                          NoResp, {}))
                  /\ UNCHANGED <<disk, procs>>
           ELSE IF fault = "read_conf" THEN Fail(d0, "io_error", <<>>)
           ELSE IF rm /\ fault = "rm_pgdata" THEN Fail(d0, "io_error", <<>>)
           ELSE IF rm /\ fault = "rm_pgdata_partial"
             THEN Fail(remove_dir_all_partly(d0, {"postmaster.pid"}), "io_error", <<>>)
           ELSE IF ~sk.ok THEN Fail(d1, "unknown_safekeeper", t1)
           ELSE IF cs.res = "err" THEN Fail(d1, "bad_topology", t1)
           ELSE IF fault = "write_config" \/ ~d0.dir THEN Fail(d1, "io_error", t1)
           ELSE IF fault = "write_config_torn"
             THEN Fail(Truncated(d1, "config.json", <<>>), "io_error", t1)
           ELSE IF fault = "open_log" THEN Fail(d2, "io_error", t2)
           ELSE IF fault = "spawn" THEN Fail(d2, "io_error", t2)
           ELSE IF fault \in {"write_pidfile", "write_pidfile_torn", "write_pidfile_cut"}
             THEN /\ disk' = [disk EXCEPT ![e] =
                                CASE fault = "write_pidfile_torn" ->
                                         Truncated(d2, "compute_ctl.pid", 0)
                                  [] fault = "write_pidfile_cut" ->
                                         Truncated(d2, "compute_ctl.pid", pid \div 10)
                                  [] OTHER -> d2]
                  /\ procs' = GuardFire(spawned, pid)
                  /\ Return(StartOutcome(e, args, "io_error", fault, 0, pid,
                                         t3 \o <<"kill", "wait">>, NoResp, {}))
           ELSE /\ disk' = [disk EXCEPT ![e] = d3]
                /\ procs' = spawned
                /\ pc' = "polling"
                /\ cur' = [NoCall EXCEPT !.ep = e, !.timeout = args.start_timeout,
                                          !.child = pid, !.args = args,
                                          !.trace = Append(t3, "write_pidfile")]
                /\ last' = last

\* (variant: the deadline test is not strict)
Expired_NotStrict(now, start_timeout) == now >= start_timeout

\* The deadline test of the poll loop
Expired(now, start_timeout) == now > start_timeout

\* (variant: a failed request is fatal at once)
ErrExpired_Always(now, start_timeout) == now >= 0

\* The deadline test of the Err arm of the poll loop
ErrExpired(now, start_timeout) == now > start_timeout

\* (variant: Empty is polled through like Init)
StatusClass_EmptyIsInit(st) ==
    CASE st \in {"Init", "Empty"} -> "init"
      [] st = "Running" -> "running"
      [] st = "Failed" -> "failed"
      [] OTHER -> "unexpected"

\* The arms of the match on state.status
StatusClass(st) ==
    CASE st = "Init" -> "init"
      [] st = "Running" -> "running"
      [] st = "Failed" -> "failed"
      [] OTHER -> "unexpected"

\* (variant: no placeholder for a missing error string)
FailedMessage_NoPlaceholder(resp) ==
    IF resp.error # <<>> THEN resp.error[1] ELSE ""

\* The text of the error of the Failed arm
FailedMessage(resp) ==
    IF resp.error # <<>> THEN resp.error[1] ELSE "<no error from compute_ctl>"

\* One iteration of the poll loop of start: get_status returns resp after
\* latency ms, the response is examined, and the loop sleeps ATTEMPT_INTERVAL
StartPoll(resp, latency) ==
    LET e == cur.ep
        now == cur.elapsed + latency
        args == cur.args
        Bail(result, msg) ==
            /\ procs' = GuardFire(procs, cur.child)
            /\ Return(StartOutcome(e, args, result, msg, now, cur.child,
                                   cur.trace \o <<"kill", "wait">>, resp, cur.seen))
        Retry ==
            /\ cur' = [cur EXCEPT !.elapsed = now + ATTEMPT_INTERVAL, !.resp = resp,
                                  !.seen = cur.seen \cup
                                      {IF resp.kind = "ok" \/ resp.status = "connect"
                                       THEN resp.status ELSE "err"}]
            /\ UNCHANGED <<procs, pc, last>>
        class == StatusClass(resp.status)
    IN  /\ pc = "polling"
        /\ UNCHANGED <<endpoints, disk>>
        /\ IF resp.kind = "ok"
           THEN CASE class = "init" ->
                       IF Expired(now, cur.timeout)
                       THEN Bail("start_timeout", resp.status) ELSE Retry
                  [] class = "running" ->
                       /\ procs' = GuardDisarm(procs, cur.child)
                       /\ Return(StartOutcome(e, args, "ok", "", now, cur.child,
                                              cur.trace, resp, cur.seen))
                  [] class = "failed" -> Bail("start_failed", FailedMessage(resp))
                  [] OTHER -> Bail("unexpected_status", resp.status)
           ELSE IF ErrExpired(now, cur.timeout)
                THEN Bail("connect_timeout", resp.status) ELSE Retry

\* The future of start is dropped while it is suspended in the poll loop
StartAbandon ==
    /\ pc = "polling"
    /\ procs' = GuardFire(procs, cur.child)
    /\ Return(StartOutcome(cur.ep, cur.args, "abandoned", "",
                           cur.elapsed, cur.child, cur.trace \o <<"kill", "wait">>,
                           cur.resp, cur.seen))
    /\ UNCHANGED <<endpoints, disk>>

----------------------------------------------------------------------------
\* Endpoint::stop

\* pg_ctl -D pgdata stop: stops the postgres instances of the data directory
PgCtlTargets(e) == {p \in Pids : procs[p].ep = e /\ procs[p].pgUp}

\* The compute_ctl processes answering on the endpoint's external HTTP port
HttpTargets(e) ==
    {p \in Pids : /\ procs[p].state = "running"
                  /\ procs[p].external_http_port = endpoints[e].external_http_port}

PostgresStopped(ps, targets) ==
    [p \in DOMAIN ps |-> IF p \in targets THEN [ps[p] EXCEPT !.pgUp = FALSE] ELSE ps[p]]

\* (variant: the signal depends on the mode alone)
send_sigterm_ModeOnly(mode, destroy) == mode # "Fast"

\* let send_sigterm = destroy || !matches!(mode, EndpointTerminateMode::Fast)
send_sigterm(mode, destroy) == destroy \/ mode # "Fast"

\* (variant: returns without the process having gone)
wait_for_compute_ctl_to_exit_NoWait(ps, pid, sigterm, exits) == [ok |-> TRUE, procs |-> ps]

\* Endpoint::wait_for_compute_ctl_to_exit, after the pid file was read: the
\* signal, if asked for, is sent without looking at the result of kill; the
\* wait succeeds if the process is gone or leaves before wait_until_stopped
\* gives up, and fails with the process still running otherwise.  A pid that
\* is none of the spawned children (the pid file was cut off) is some other
\* process of the system, or none: exits says which
wait_for_compute_ctl_to_exit(ps, pid, sigterm, exits) ==
    LET spawned == pid \in DOMAIN ps
        alive == spawned => ps[pid].state = "running"
        leaves == exits = "alone" \/ (exits = "on_sigterm" /\ sigterm)
    IN  IF alive /\ ~leaves
        THEN [ok |-> FALSE, procs |-> ps]
        ELSE [ok |-> TRUE,
              procs |-> IF spawned /\ alive THEN [ps EXCEPT ![pid].state = "exited"]
                        ELSE ps]

StopOutcome(e, mode, destroy, result, msg, child, trace) ==
    [Outcome("stop", e, result, msg, 0, child, trace) EXCEPT
        !.args = [NoArgs EXCEPT !.mode = mode, !.destroy = destroy]]


\* Endpoint::stop up to the end of its primary action: the POST /terminate
\* (awaited) or pg_ctl stop.  An error returns at once, with nothing changed;
\* otherwise postgres is down and the call goes on to wait for compute_ctl
\* (StopWait), other tasks and processes running in between.  stop itself
\* removes no file: a postgres that shuts down removes its postmaster.pid, and
\* the postmaster.pid of a postgres that had crashed stays
stop(e, mode, destroy, fault) ==
    LET targets == IF mode = "ImmediateTerminate" THEN HttpTargets(e) ELSE PgCtlTargets(e)
        faulty == IF mode = "ImmediateTerminate" THEN fault \in {"token", "terminate"}
                  ELSE fault = "pg_ctl"
        primary_ok ==
            IF mode = "ImmediateTerminate" THEN targets # {} /\ ~faulty
            ELSE disk[e].pgdata /\ disk[e].marker /\ targets # {} /\ ~faulty
        t1 == <<IF mode = "ImmediateTerminate" THEN "terminate" ELSE "pg_ctl_stop">>
    IN  /\ pc = "idle"
        /\ e \in DOMAIN endpoints
        /\ UNCHANGED endpoints
        /\ IF ~primary_ok
             THEN /\ last' = StopOutcome(e, mode, destroy, "primary_failed",
                                          IF faulty THEN fault ELSE "", 0, <<>>)
                  /\ UNCHANGED <<disk, procs, pc, cur>>
           ELSE /\ procs' = PostgresStopped(procs, targets)
                /\ disk' = [x \in DOMAIN disk |->
                              IF \E p \in targets : procs[p].pgUp /\ procs[p].ep = x
                              THEN [disk[x] EXCEPT !.marker = FALSE]
                              ELSE disk[x]]
                /\ pc' = "stopping"
                /\ cur' = [NoCall EXCEPT !.ep = e, !.mode = mode, !.destroy = destroy,
                                          !.trace = t1]
                /\ last' = last

\* Endpoint::stop in wait_for_compute_ctl_to_exit: the pid file is read,
\* SIGTERM sent if asked for, and the exit of compute_ctl waited for.  Without
\* destroy the call returns; with destroy it goes on to the removal
\* (StopRemove)
StopWait(exits, fault) ==
    LET e == cur.ep
        mode == cur.mode
        destroy == cur.destroy
        d1 == disk[e]
        sigterm == send_sigterm(mode, destroy)
        pid == d1.pidfile
        t2 == cur.trace \o (IF sigterm THEN <<"sigterm">> ELSE <<>>)
        waited == wait_for_compute_ctl_to_exit(procs, pid, sigterm, exits)
        t3 == Append(t2, "wait")
        Done(ps, result, msg, trace) ==
            /\ procs' = ps
            /\ Return(StopOutcome(e, mode, destroy, result, msg, pid, trace))
    IN  /\ pc = "stopping"
        /\ UNCHANGED <<endpoints, disk>>
        /\ IF "compute_ctl.pid" \in d1.torn
             THEN Done(procs, "parse_error", "parse_pidfile", cur.trace)
           ELSE IF ~d1.dir \/ pid = 0 THEN Done(procs, "io_error", "read_pidfile", cur.trace)
           ELSE IF fault = "parse_pidfile"
             THEN Done(procs, "parse_error", fault, cur.trace)
           ELSE IF ~waited.ok THEN Done(procs, "wait_failed", "", t3)
           ELSE IF ~destroy THEN Done(waited.procs, "ok", "", t3)
           ELSE /\ procs' = waited.procs
                /\ pc' = "removing"
                /\ cur' = [cur EXCEPT !.child = pid, !.trace = t3]
                /\ last' = last

\* Endpoint::stop with destroy, after the wait: remove_dir_all of the endpoint
\* directory
StopRemove(removed, fault) ==
    LET e == cur.ep
        Done(d, result, msg, trace) ==
            /\ disk' = [disk EXCEPT ![e] = d]
            /\ Return(StopOutcome(e, cur.mode, cur.destroy, result, msg, cur.child, trace))
    IN  /\ pc = "removing"
        /\ UNCHANGED <<endpoints, procs>>
        /\ IF fault = "rm_dir"
             THEN Done(remove_dir_all_partly(disk[e], removed), "io_error", fault,
                       cur.trace)
             ELSE Done(EmptyDir, "ok", "", Append(cur.trace, "rm_dir"))

----------------------------------------------------------------------------
\* Endpoint::reconfigure

\* (variant: any topology is accepted)
TopologyAccepted_Any(conninfo) == DOMAIN conninfo.shards = DOMAIN conninfo.shards

\* The ensure! on the supplied topology
TopologyAccepted(conninfo) == DOMAIN conninfo.shards # {}

\* (variant: pageserver_connstring is made again from the new topology)
WithPageservers_Recomputed(spec, pageserver_conninfo) ==
    IF pageserver_conninfo # <<>>
    THEN [spec EXCEPT !.pageserver_connection_info = pageserver_conninfo[1],
                      !.shard_stripe_size = pageserver_conninfo[1].stripe_size,
                      !.pageserver_connstring =
                          IF pageserver_connstring(pageserver_conninfo[1]).res = "some"
                          THEN <<pageserver_connstring(pageserver_conninfo[1]).val>>
                          ELSE <<>>]
    ELSE spec

\* The spec after the block "if let Some(pageserver_conninfo)"
WithPageservers(spec, pageserver_conninfo) ==
    IF pageserver_conninfo # <<>>
    THEN [spec EXCEPT !.pageserver_connection_info = pageserver_conninfo[1],
                      !.shard_stripe_size = pageserver_conninfo[1].stripe_size]
    ELSE spec

\* (variant: the generation is taken over without a safekeeper list)
WithSafekeepers_LooseGeneration(spec, safekeepers, connstrs, safekeeper_generation) ==
    LET s1 == IF safekeepers # <<>>
              THEN [spec EXCEPT !.safekeeper_connstrings = connstrs] ELSE spec
    IN  IF safekeeper_generation # <<>>
        THEN [s1 EXCEPT !.safekeepers_generation = safekeeper_generation[1]]
        ELSE s1

\* The spec after the block "if let Some(safekeepers)"
WithSafekeepers(spec, safekeepers, connstrs, safekeeper_generation) ==
    IF safekeepers # <<>>
    THEN LET s1 == [spec EXCEPT !.safekeeper_connstrings = connstrs]
         IN  IF safekeeper_generation # <<>>
             THEN [s1 EXCEPT !.safekeepers_generation = safekeeper_generation[1]]
             ELSE s1
    ELSE spec

\* status.is_client_error() || status.is_server_error()
IsErrorStatus(code) == (code >= 400 /\ code <= 499) \/ (code >= 500 /\ code <= 599)

\* The text of the error made from an error answer
RejectedMessage(resp) == IF resp.body_ok THEN "Error: body" ELSE "Http error (status)"

\* (variant: the token is signed with the key the endpoint was created under)
generate_jwt_CreationKey(e) ==
    [compute_id |-> e, signer |-> endpoints[e].compute_ctl_config.jwks[1].key]

\* Endpoint::generate_jwt: the claims signed with the private key that is in
\* the key files now
generate_jwt(e) == [compute_id |-> e, signer |-> env_key]

\* config.json is there and does not parse
ConfigTorn(e) == "config.json" \in disk[e].torn

\* The whole call: the persisted spec is read, updated in memory and posted to
\* the compute_ctl listening on the external HTTP port; resp is its answer
reconfigure(e, pageserver_conninfo, safekeepers, safekeeper_generation, resp, fault) ==
    LET args == [NoArgs EXCEPT !.pageserver_conninfo = pageserver_conninfo,
                               !.safekeepers = safekeepers,
                               !.safekeeper_generation = safekeeper_generation]
        Done(result, msg, pushed, http) ==
            last' = [Outcome("reconfigure", e, result, msg, 0, 0, <<>>) EXCEPT
                        !.args = args, !.pushed = pushed, !.http = http,
                        !.bundle = IF pushed # <<>> THEN disk[e].ctl_config ELSE <<>>,
                        !.token = IF pushed # <<>> THEN <<generate_jwt(e)>> ELSE <<>>]
        postgresql_conf == read_postgresql_conf(e)
        s1 == [disk[e].config[1] EXCEPT !.cluster.postgresql_conf = postgresql_conf]
        s2 == WithPageservers(s1, pageserver_conninfo)
        sk == IF safekeepers # <<>>
              THEN build_safekeepers_connstrs(endpoints[e].mode, safekeepers[1])
              ELSE [ok |-> TRUE, val |-> <<>>]
        s3 == WithSafekeepers(s2, safekeepers, sk.val, safekeeper_generation)
    IN  /\ pc = "idle"
        /\ e \in DOMAIN endpoints
        /\ UNCHANGED <<endpoints, disk, procs, pc, cur>>
        /\ IF fault = "open_config" \/ (disk[e].config = <<>> /\ ~ConfigTorn(e))
             THEN Done("io_error", "open_config", <<>>, 0)
           ELSE IF ConfigTorn(e) THEN Done("parse_error", "config", <<>>, 0)
           ELSE IF fault = "read_conf" THEN Done("io_error", fault, <<>>, 0)
           ELSE IF pageserver_conninfo # <<>> /\ ~TopologyAccepted(pageserver_conninfo[1])
             THEN Done("no_pageservers", "no pageservers provided", <<>>, 0)
           ELSE IF ~sk.ok THEN Done("unknown_safekeeper", "", <<>>, 0)
           ELSE IF fault = "token" THEN Done("auth_error", fault, <<>>, 0)
           ELSE IF HttpTargets(e) = {} THEN Done("send_error", "", <<>>, 0)
           ELSE IF resp.kind = "err" THEN Done("send_error", "", <<s3>>, 0)
           ELSE IF ~IsErrorStatus(resp.code) THEN Done("ok", "", <<s3>>, resp.code)
           ELSE Done("rejected", RejectedMessage(resp), <<s3>>, resp.code)

\* (write_config: the write fails after File::create truncated the file)
UpdateFaults == {"none", "open_config", "create_config", "write_config"}

\* Endpoint::update_pageservers_in_config: config.json is read, the topology
\* of its spec replaced, and the file written back; nothing is sent
update_pageservers_in_config(e, pageserver_conninfo, fault) ==
    LET Done(result, msg) ==
            last' = [Outcome("update_pageservers", e, result, msg, 0, 0, <<>>) EXCEPT
                        !.args = [NoArgs EXCEPT
                                    !.pageserver_conninfo = <<pageserver_conninfo>>]]
        spec == [disk[e].config[1] EXCEPT
                    !.pageserver_connection_info = pageserver_conninfo]
    IN  /\ pc = "idle"
        /\ e \in DOMAIN endpoints
        /\ UNCHANGED <<endpoints, procs, pc, cur>>
        /\ IF fault = "open_config" \/ (disk[e].config = <<>> /\ ~ConfigTorn(e))
             THEN Done("io_error", "open_config") /\ disk' = disk
           ELSE IF ConfigTorn(e)
             THEN Done("parse_error", "config") /\ disk' = disk
           ELSE IF fault = "create_config"
             THEN Done("io_error", fault) /\ disk' = disk
           ELSE IF fault = "write_config"
             THEN /\ disk' = [disk EXCEPT ![e] = Truncated(disk[e], "config.json", <<>>)]
                  /\ Done("io_error", fault)
           ELSE /\ disk' = [disk EXCEPT ![e].config = <<spec>>]
                /\ Done("ok", "")

----------------------------------------------------------------------------
\* The status query (endpoint list)

StatusQuery(e) ==
    /\ pc \in {"idle", "stopping", "removing"}
    /\ e \in DOMAIN endpoints
    /\ last' = [Outcome("status", e, status(e), "", 0, 0, <<>>) EXCEPT
                   !.seq = IF last.op = "status" THEN 1 - last.seq ELSE 0]
    /\ UNCHANGED <<endpoints, disk, procs, pc, cur>>

----------------------------------------------------------------------------
\* The environment: the supervised processes

\* compute_ctl brings postgres up: the data directory with postmaster.pid
\* appears and the data port accepts connections
PostgresUp(p) ==
    /\ p \in Pids
    /\ procs[p].state = "running"
    /\ ~procs[p].pgUp
    /\ disk[procs[p].ep].dir
    /\ ~CanConnect(procs[p].pg_port)
    /\ procs' = [procs EXCEPT ![p].pgUp = TRUE]
    /\ disk' = [disk EXCEPT ![procs[p].ep].pgdata = TRUE, ![procs[p].ep].marker = TRUE]
    /\ UNCHANGED <<endpoints, pc, cur, last>>

\* postgres goes away; a clean shutdown removes postmaster.pid, a crash leaves it
PostgresDown(p, clean) ==
    /\ p \in Pids
    /\ procs[p].pgUp
    /\ procs' = [procs EXCEPT ![p].pgUp = FALSE]
    /\ disk' = IF clean THEN [disk EXCEPT ![procs[p].ep].marker = FALSE] ELSE disk
    /\ UNCHANGED <<endpoints, pc, cur, last>>

\* postgresql.conf of the endpoint directory is edited by hand
EditPostgresqlConf(e) ==
    /\ pc \in {"idle", "stopping", "removing"}
    /\ disk[e].dir
    /\ Len(disk[e].pgconf) = 1
    /\ disk' = [disk EXCEPT ![e].pgconf = Append(disk[e].pgconf, "edited")]
    /\ UNCHANGED <<endpoints, procs, pc, cur, last>>

\* The key files of the environment are replaced by a new key pair
RotateKey ==
    /\ pc = "idle"
    /\ env_key < MaxKeyPairs
    /\ env_key' = env_key + 1
    /\ UNCHANGED <<endpoints, disk, procs, pc, cur, last, creating, jwt, access, manager, guard_log>>

\* endpoint.json is rewritten with cluster settings
EditClusterOverride(e, cluster) ==
    /\ pc = "idle"
    /\ disk[e].meta # <<>>
    /\ disk[e].meta[1].cluster = <<>>
    /\ disk' = [disk EXCEPT ![e].meta = <<[disk[e].meta[1] EXCEPT !.cluster = <<cluster>>]>>]
    /\ UNCHANGED <<endpoints, procs, pc, cur, last>>

\* compute_ctl exits on its own
ProcExit(p) ==
    /\ p \in Pids
    /\ procs[p].state = "running"
    /\ ~procs[p].pgUp
    /\ procs' = [procs EXCEPT ![p].state = "exited"]
    /\ UNCHANGED <<endpoints, disk, pc, cur, last>>

----------------------------------------------------------------------------
\* utils::auth: Claims, JwtAuth, SwappableJwtAuth

\* The key pairs tokens are signed with; a DecodingKey is named by its pair
KeyPairs == {"k1", "k2", "k3"}
DecodingKeys == {"k1", "k2"}

\* The sequences over S of length up to n
RECURSIVE SeqsUpTo(_, _)
SeqsUpTo(S, n) ==
    IF n = 0 THEN {<<>>}
    ELSE LET shorter == SeqsUpTo(S, n - 1)
         IN  shorter \cup {Append(q, x) : q \in {r \in shorter : Len(r) = n - 1}, x \in S}

\* The decoding_keys vectors a JwtAuth is made with
KeySets == SeqsUpTo(DecodingKeys, MaxKeys)

Scopes ==
    {"Tenant", "TenantEndpoint", "PageServerApi", "SafekeeperData", "GenerationsApi",
     "Admin", "Infra", "Scrubber", "ControllerPeer"}

\* struct Claims; an Option is <<>> for None
ClaimsValues ==
    [tenant_id : {<<>>, <<"t1">>}, endpoint_id : {<<>>, <<"u1">>}, scope : Scopes]

\* (variant: the two serde(rename) attributes are ignored)
ScopeName_NoRename(scope) ==
    CASE scope = "Tenant" -> "tenant"
      [] scope = "TenantEndpoint" -> "tenantendpoint"
      [] scope = "PageServerApi" -> "pageserverapi"
      [] scope = "SafekeeperData" -> "safekeeperdata"
      [] scope = "GenerationsApi" -> "generationsapi"
      [] scope = "Admin" -> "admin"
      [] scope = "Infra" -> "infra"
      [] scope = "Scrubber" -> "scrubber"
      [] OTHER -> "controllerpeer"

\* Serialize for Scope: rename_all = "lowercase" and the two renames
ScopeName(scope) ==
    CASE scope = "Tenant" -> "tenant"
      [] scope = "TenantEndpoint" -> "tenantendpoint"
      [] scope = "PageServerApi" -> "pageserverapi"
      [] scope = "SafekeeperData" -> "safekeeperdata"
      [] scope = "GenerationsApi" -> "generations_api"
      [] scope = "Admin" -> "admin"
      [] scope = "Infra" -> "infra"
      [] scope = "Scrubber" -> "scrubber"
      [] OTHER -> "controller_peer"

\* Deserialize for Scope: <<>> for a name that is no variant
ScopeFromName(name) ==
    CASE name = "tenant" -> <<"Tenant">>
      [] name = "tenantendpoint" -> <<"TenantEndpoint">>
      [] name = "pageserverapi" -> <<"PageServerApi">>
      [] name = "safekeeperdata" -> <<"SafekeeperData">>
      [] name = "generations_api" -> <<"GenerationsApi">>
      [] name = "admin" -> <<"Admin">>
      [] name = "infra" -> <<"Infra">>
      [] name = "scrubber" -> <<"Scrubber">>
      [] name = "controller_peer" -> <<"ControllerPeer">>
      [] OTHER -> <<>>

\* Serialize for Claims: the JSON object; endpoint_id is left out when None
SerializeClaims(claims) ==
    [f \in {"tenant_id", "scope"}
            \cup (IF claims.endpoint_id # <<>> THEN {"endpoint_id"} ELSE {}) |->
        CASE f = "tenant_id" -> claims.tenant_id
          [] f = "scope" -> ScopeName(claims.scope)
          [] OTHER -> claims.endpoint_id[1]]

\* Deserialize for Claims: tenant_id and endpoint_id default to None, an empty
\* endpoint_id string reads as None, scope is required
DeserializeClaims(json) ==
    IF "scope" \notin DOMAIN json \/ ScopeFromName(json["scope"]) = <<>>
    THEN [ok |-> FALSE, claims |-> <<>>]
    ELSE [ok |-> TRUE,
          claims |-> <<[tenant_id |-> IF "tenant_id" \in DOMAIN json
                                      THEN json["tenant_id"] ELSE <<>>,
                        endpoint_id |-> IF "endpoint_id" \in DOMAIN json
                                        THEN (IF json["endpoint_id"] = "" THEN <<>>
                                              ELSE <<json["endpoint_id"]>>)
                                        ELSE <<>>,
                        scope |-> ScopeFromName(json["scope"])[1]]>>]

\* encode_from_key_file: the token carries the payload and tells who signed it
encode_from_key_file(claims, pair) ==
    [signer |-> pair, payload |-> SerializeClaims(claims)]

\* Payloads not made by SerializeClaims: an unknown scope, and the control
\* plane's form with an empty endpoint_id
UnknownScopePayload == [scope |-> "bogus"]
EmptyEndpointPayload == [scope |-> "tenant", tenant_id |-> <<"t1">>, endpoint_id |-> ""]

\* jsonwebtoken::decode with one key: the signature is verified, then the
\* payload is deserialized
decode_with_key(token, key) ==
    IF token.signer # key
    THEN [ok |-> FALSE, err |-> "InvalidSignature", claims |-> <<>>, by |-> 0]
    ELSE LET d == DeserializeClaims(token.payload)
         IN  IF d.ok THEN [ok |-> TRUE, err |-> "", claims |-> d.claims, by |-> 0]
             ELSE [ok |-> FALSE, err |-> "Json", claims |-> <<>>, by |-> 0]

NoKeysError ==
    [ok |-> FALSE, err |-> "no JWT decoding keys configured", claims |-> <<>>, by |-> 0]

\* The loop of JwtAuth::decode from key i on; res: the result of the key
\* tried before (<<>> for None); by: the key that gave the result returned
RECURSIVE DecodeLoop(_, _, _, _)
DecodeLoop(keys, token, i, res) ==
    IF i > Len(keys)
    THEN (IF res # <<>> THEN res[1] ELSE NoKeysError)
    ELSE LET r == [decode_with_key(token, keys[i]) EXCEPT !.by = i]
         IN  IF r.ok THEN r ELSE DecodeLoop(keys, token, i + 1, <<r>>)

\* (variant: the error of the first key is kept)
decode_FirstError(keys, token) ==
    LET last_res == DecodeLoop(keys, token, 1, <<>>)
    IN  IF last_res.ok \/ keys = <<>> THEN last_res
        ELSE [decode_with_key(token, keys[1]) EXCEPT !.by = 1]

\* JwtAuth::decode
decode(keys, token) == DecodeLoop(keys, token, 1, <<>>)

\* The decode calls on the SwappableJwtAuth
Calls == {"v1", "v2"}

IdleCall ==
    [state |-> "idle", token |-> [signer |-> "", payload |-> <<>>], signed |-> <<>>, snapshot |-> <<>>,
     version |-> 0, result |-> NoKeysError]

\* SwappableJwtAuth::new; history: every JwtAuth installed so far
SwappableJwtAuth_new(keys) ==
    [installed |-> keys, history |-> <<keys>>, calls |-> [c \in Calls |-> IdleCall]]

\* SwappableJwtAuth::swap
swap(keys) ==
    /\ Len(jwt.history) <= MaxSwaps
    /\ jwt' = [jwt EXCEPT !.installed = keys, !.history = Append(@, keys)]
    /\ UNCHANGED <<endpoints, disk, procs, pc, cur, last, creating, env_key, access, manager, guard_log>>

\* SwappableJwtAuth::decode up to self.0.load(): the call holds the JwtAuth
\* installed now; signed: the claims the token was made from (<<>>: forged)
VerifyLoad(c, token, signed) ==
    /\ jwt.calls[c].state # "loaded"
    /\ jwt' = [jwt EXCEPT !.calls[c] =
                  [state |-> "loaded", token |-> token, signed |-> signed,
                   snapshot |-> jwt.installed, version |-> Len(jwt.history),
                   result |-> NoKeysError]]
    /\ UNCHANGED <<endpoints, disk, procs, pc, cur, last, creating, env_key, access, manager, guard_log>>

\* (variant: the call reads the keys installed when it finishes)
KeysInUse_Live(c) == jwt.installed

\* The JwtAuth behind the guard returned by load()
KeysInUse(c) == jwt.calls[c].snapshot

\* SwappableJwtAuth::decode from load() on: JwtAuth::decode on the loaded value
VerifyFinish(c) ==
    /\ jwt.calls[c].state = "loaded"
    /\ jwt' = [jwt EXCEPT !.calls[c].state = "done",
                          !.calls[c].result = decode(KeysInUse(c), jwt.calls[c].token)]
    /\ UNCHANGED <<endpoints, disk, procs, pc, cur, last, creating, env_key, access, manager, guard_log>>

----------------------------------------------------------------------------
\* safekeeper timeline_guard.rs: AccessService and ResidenceGuard

\* GuardId values
GuardIds == 0..MaxGuards

\* ManagerCtlMessage::GuardDrop(guard_id)
GuardDrop(guard_id) == [kind |-> "GuardDrop", guard_id |-> guard_id]

\* AccessService::new
AccessService_new == [next_guard_id |-> 0, guards |-> {}]

\* The channel to the manager with its receiver open and nothing in it, no
\* ResidenceGuard held
NoGuards == [held |-> <<>>, manager_rx |-> <<>>, rx_open |-> TRUE, panicked |-> FALSE]

NoGuardLog == [issued |-> <<>>, sends |-> <<>>, handled |-> <<>>, strays |-> <<>>]

\* AccessService::is_empty
is_empty(svc) == svc.guards = {}

\* (variant: next_guard_id is not advanced)
create_guard_SameId(svc) ==
    [svc |-> [svc EXCEPT !.guards = svc.guards \cup {svc.next_guard_id}],
     guard |-> [guard_id |-> svc.next_guard_id]]

\* AccessService::create_guard: the service after the call and the
\* ResidenceGuard returned
create_guard(svc) ==
    LET guard_id == svc.next_guard_id
    IN  [svc |-> [next_guard_id |-> guard_id + 1,
                  guards |-> svc.guards \cup {guard_id}],
         guard |-> [guard_id |-> guard_id]]

\* (variant: the id stays in the set)
drop_guard_Kept(svc, guard_id) == [svc |-> svc, ok |-> guard_id \in svc.guards]

\* AccessService::drop_guard: the service after HashSet::remove and the value
\* remove returns, which is what assert! tests
drop_guard(svc, guard_id) ==
    [svc |-> [svc EXCEPT !.guards = svc.guards \ {guard_id}],
     ok |-> guard_id \in svc.guards]

\* UnboundedSender::send: Err when the receiver is gone
send(m, msg) ==
    IF m.rx_open
    THEN [ok |-> TRUE, manager_rx |-> Append(m.manager_rx, msg)]
    ELSE [ok |-> FALSE, manager_rx |-> m.manager_rx]

RemoveAt(seq, i) == SubSeq(seq, 1, i - 1) \o SubSeq(seq, i + 1, Len(seq))

GuardsUnchanged == UNCHANGED <<endpoints, disk, procs, pc, cur, last, creating, jwt, env_key>>

\* The manager calls create_guard and hands the ResidenceGuard out
CreateGuard ==
    LET r == create_guard(access)
    IN  /\ manager.rx_open
        /\ access.next_guard_id < MaxGuards
        /\ access' = r.svc
        /\ manager' = [manager EXCEPT !.held = Append(manager.held, r.guard)]
        /\ guard_log' = [guard_log EXCEPT !.issued = Append(guard_log.issued, r.guard.guard_id)]
        /\ GuardsUnchanged

\* impl Drop for ResidenceGuard: the i-th guard held is dropped
ResidenceGuardDrop(i) ==
    LET guard == manager.held[i]
        res == send(manager, GuardDrop(guard.guard_id))
    IN  /\ i \in DOMAIN manager.held
        /\ manager' = [manager EXCEPT !.held = RemoveAt(manager.held, i),
                                       !.manager_rx = res.manager_rx]
        /\ guard_log' = [guard_log EXCEPT
                            !.sends = Append(guard_log.sends,
                                             [guard_id |-> guard.guard_id, ok |-> res.ok])]
        /\ UNCHANGED access
        /\ GuardsUnchanged

\* The manager takes the next message from its channel and calls drop_guard
\* with the id it carries; a failed assert! ends the manager, and with it the
\* receiver
ManagerHandle ==
    LET msg == Head(manager.manager_rx)
        r == drop_guard(access, msg.guard_id)
    IN  /\ manager.rx_open
        /\ manager.manager_rx # <<>>
        /\ access' = r.svc
        /\ manager' = [manager EXCEPT !.manager_rx = Tail(manager.manager_rx),
                                       !.panicked = ~r.ok,
                                       !.rx_open = r.ok]
        /\ guard_log' = [guard_log EXCEPT !.handled = Append(guard_log.handled, msg.guard_id)]
        /\ GuardsUnchanged

\* The manager ends and drops the receiver of its channel
ManagerExit ==
    /\ manager.rx_open
    /\ manager' = [manager EXCEPT !.rx_open = FALSE]
    /\ UNCHANGED <<access, guard_log>>
    /\ GuardsUnchanged

\* drop_guard called with an id that no GuardDrop message just received carries
StrayDropGuard(guard_id) ==
    LET r == drop_guard(access, guard_id)
    IN  /\ manager.rx_open
        /\ Len(guard_log.strays) < MaxStrayDrops
        /\ access' = r.svc
        /\ manager' = [manager EXCEPT !.panicked = ~r.ok, !.rx_open = r.ok]
        /\ guard_log' = [guard_log EXCEPT !.strays = Append(guard_log.strays, guard_id)]
        /\ GuardsUnchanged

----------------------------------------------------------------------------
\* Specification

\* An empty endpoints directory, nothing running, no call in flight
InitEndpoints ==
    /\ endpoints = <<>>
    /\ disk = [e \in EndpointIds |-> EmptyDir]
    /\ procs = <<>>
    /\ pc = "idle"
    /\ cur = NoCall
    /\ last = NoOutcome
    /\ creating = <<>>
    /\ env_key = 1
    /\ access = AccessService_new
    /\ manager = NoGuards
    /\ guard_log = NoGuardLog

Init ==
    /\ InitEndpoints
    /\ jwt = SwappableJwtAuth_new(<<>>)

\* The registry with two endpoints, each created once: create, start, stop
\* (with the process leaving in time, mode Immediate acts on the processes and
\* the directory as mode Fast does; SpecStop covers it)
Next ==
    /\ UNCHANGED <<creating, jwt, env_key, access, manager, guard_log>>
    /\ \/ \E id \in EndpointIds \ DOMAIN endpoints, tn \in Tenants, pr \in CreateProfiles :
             Create(id, tn, pr[1], 0, pr[2], "none")
       \/ \E e \in EndpointIds, args \in QuickStartArgs : start(e, args, "none")
       \/ \E resp \in QuickResponses : StartPoll(resp, 0)
       \/ StartAbandon
       \/ \E e \in EndpointIds, mode \in TerminateModes \ {"Immediate"}, destroy \in BOOLEAN :
             stop(e, mode, destroy, "none")
       \/ StopWait("alone", "none")
       \/ StopRemove({}, "none")
       \/ \E p \in Pids : PostgresUp(p)
       \/ \E p \in Pids, clean \in BOOLEAN : PostgresDown(p, clean)
       \/ \E p \in Pids : ProcExit(p)

Spec == Init /\ [][Next]_vars

\* One endpoint, started under every fault, status response and request latency
NextStart ==
    /\ UNCHANGED <<creating, jwt, env_key, access, manager, guard_log>>
    /\ \/ /\ endpoints = <<>>
          /\ \E fault \in CreateFaults : Create("ep1", "t1", "tl1", 0, "Primary", fault)
       \/ \E args \in StartArgs, fault \in StartFaults : start("ep1", args, fault)
       \/ \E resp \in StatusResponses, latency \in Latencies : StartPoll(resp, latency)
       \/ StartAbandon
       \/ \E p \in Pids : ProcExit(p)

SpecStart == Init /\ [][NextStart]_vars

\* One endpoint id, created and created again, started, stopped and queried
NextStatus ==
    /\ UNCHANGED <<creating, jwt, env_key, access, manager, guard_log>>
    /\ \/ Create("ep1", "t1", "tl1", 0, "Primary", "none")
       \/ \E args \in QuickStartArgs : start("ep1", args, "none")
       \/ \E resp \in QuickResponses : StartPoll(resp, 0)
       \/ StartAbandon
       \/ \E mode \in TerminateModes : stop("ep1", mode, FALSE, "none")
       \/ StopWait("alone", "none")
       \/ StatusQuery("ep1")
       \/ \E p \in Pids : PostgresUp(p)
       \/ \E p \in Pids, clean \in BOOLEAN : PostgresDown(p, clean)
       \/ \E p \in Pids : ProcExit(p)

SpecStatus == Init /\ [][NextStatus]_vars

\* The registry alone: endpoints created with and without a data port, under
\* every fault, and the registry loaded again from the directory
NextRegistry ==
    /\ UNCHANGED <<creating, jwt, env_key, access, manager, guard_log>>
    /\ \/ \E id \in EndpointIds \ DOMAIN endpoints, mode \in {"Primary", "Replica"},
             pg_port \in CreatePorts, fault \in {"none", "write_meta", "write_meta_torn"} :
             /\ ~disk[id].dir
             /\ Create(id, "t1", "tl1", pg_port, mode, fault)
       \/ \E faults \in [EndpointIds -> LoadFaults] : load(faults)

SpecRegistry == Init /\ [][NextRegistry]_vars

\* One endpoint, started and stopped in every mode, with and without destroy
NextStop ==
    /\ UNCHANGED <<creating, jwt, env_key, access, manager, guard_log>>
    /\ \/ /\ endpoints = <<>>
          /\ Create("ep1", "t1", "tl1", 0, "Primary", "none")
       \/ \E args \in QuickStartArgs : start("ep1", args, "none")
       \/ \E resp \in QuickResponses : StartPoll(resp, 0)
       \/ StartAbandon
       \/ \E mode \in TerminateModes, destroy \in BOOLEAN, fault \in StopFaults :
             stop("ep1", mode, destroy, fault)
       \/ \E exits \in ExitBehaviours, fault \in StopWaitFaults : StopWait(exits, fault)
       \/ \E fault \in StopRemoveFaults :
             \E removed \in IF fault = "rm_dir" THEN RemovableSets ELSE {{}} :
                StopRemove(removed, fault)
       \/ EditPostgresqlConf("ep1")
       \/ \E p \in Pids : PostgresUp(p)
       \/ \E p \in Pids, clean \in BOOLEAN : PostgresDown(p, clean)
       \/ \E p \in Pids : ProcExit(p)

SpecStop == Init /\ [][NextStop]_vars

\* The guard service as the manager uses it: guards issued, dropped by their
\* holders in any order, and their GuardDrop messages handled
NextGuards ==
    \/ CreateGuard
    \/ \E i \in 1..MaxGuards : ResidenceGuardDrop(i)
    \/ ManagerHandle
    \/ ManagerExit

SpecGuards == Init /\ [][NextGuards]_vars

\* The same with drop_guard also called outside the handling of a message
NextDropGuard ==
    \/ CreateGuard
    \/ \E i \in 1..MaxGuards : ResidenceGuardDrop(i)
    \/ ManagerHandle
    \/ \E guard_id \in GuardIds : StrayDropGuard(guard_id)

SpecDropGuard == Init /\ [][NextDropGuard]_vars

\* One endpoint whose starts fail after the spawn, or succeed, and are followed
\* by stops
FailingResponses == {r \in StatusResponses : r.status \in {"Running", "Failed", "Empty"}}

NextRestart ==
    /\ UNCHANGED <<creating, jwt, env_key, access, manager, guard_log>>
    /\ \/ /\ endpoints = <<>>
          /\ Create("ep1", "t1", "tl1", 0, "Primary", "none")
       \/ \E args \in QuickStartArgs,
             fault \in {"none", "write_pidfile", "write_pidfile_torn", "write_pidfile_cut"} :
             start("ep1", args, fault)
       \/ \E resp \in FailingResponses : StartPoll(resp, 0)
       \/ \E mode \in TerminateModes, destroy \in BOOLEAN :
             stop("ep1", mode, destroy, "none")
       \/ \E exits \in ExitBehaviours : StopWait(exits, "none")
       \/ StopRemove({}, "none")
       \/ \E p \in Pids : PostgresUp(p)

SpecRestart == Init /\ [][NextRestart]_vars

\* One endpoint, started and reconfigured with every argument, answer and fault
NextReconfigure ==
    /\ UNCHANGED <<creating, jwt, env_key, access, manager, guard_log>>
    /\ \/ /\ endpoints = <<>>
          /\ Create("ep1", "t1", "tl1", 0, "Primary", "none")
       \/ \E args \in QuickStartArgs : start("ep1", args, "none")
       \/ \E resp \in QuickResponses : StartPoll(resp, 0)
       \/ EditPostgresqlConf("ep1")
       \/ \E ps \in ReconfigureConnInfos, sks \in ReconfigureSafekeepers,
             g \in ReconfigureGenerations, fault \in ReconfigureFaults :
             \E resp \in IF fault = "none" THEN ConfigureResponses
                          ELSE {r \in ConfigureResponses : r.kind = "err"} :
                reconfigure("ep1", ps, sks, g, resp, fault)
       \/ \E ci \in ReconfigureConnInfos \ {<<>>}, fault \in UpdateFaults :
             update_pageservers_in_config("ep1", ci[1], fault)
       \/ \E p \in Pids : ProcExit(p)

SpecReconfigure == Init /\ [][NextReconfigure]_vars

\* The first start call on one endpoint, where every status request of the
\* poll loop completes: the loop goes on as long as it is suspended
PollStep ==
    /\ \E resp \in StatusResponses, latency \in Latencies : StartPoll(resp, latency)
    /\ UNCHANGED <<creating, jwt, env_key, access, manager, guard_log>>

NextPoll ==
    /\ UNCHANGED <<creating, jwt, env_key, access, manager, guard_log>>
    /\ \/ /\ endpoints = <<>>
          /\ Create("ep1", "t1", "tl1", 0, "Primary", "none")
       \/ /\ procs = <<>>
          /\ \E args \in StartArgs : start("ep1", args, "none")
       \/ PollStep

SpecPoll == Init /\ [][NextPoll]_vars /\ WF_vars(PollStep)

\* Two processes creating a Primary endpoint of the same timeline at once,
\* and the endpoints started
NextRace ==
    \/ /\ load([e \in EndpointIds |-> "none"])
       /\ UNCHANGED <<creating, jwt, env_key, access, manager, guard_log>>
    \/ \E id \in EndpointIds : CreateCheck(id, "t1", "tl1", "Primary")
    \/ \E id \in EndpointIds : Schedule(id)
    \/ \E id \in EndpointIds : CreateCommit(id)
    \/ /\ \E id \in EndpointIds, args \in QuickStartArgs : start(id, args, "none")
       /\ UNCHANGED <<creating, jwt, env_key, access, manager, guard_log>>
    \/ /\ \E resp \in QuickResponses : StartPoll(resp, 0)
       /\ UNCHANGED <<creating, jwt, env_key, access, manager, guard_log>>
    \/ /\ \E p \in Pids : PostgresUp(p)
       /\ UNCHANGED <<creating, jwt, env_key, access, manager, guard_log>>

SpecRace == Init /\ [][NextRace]_vars

\* What reconfigure sends: one endpoint created, started and reconfigured
\* while the key files of the environment are replaced
NextPush ==
    /\ UNCHANGED <<creating, jwt, access, manager, guard_log>>
    /\ \/ /\ endpoints = <<>>
          /\ Create("ep1", "t1", "tl1", 0, "Primary", "none")
          /\ UNCHANGED env_key
       \/ /\ \E args \in QuickStartArgs : start("ep1", args, "none")
          /\ UNCHANGED env_key
       \/ /\ \E resp \in QuickResponses : StartPoll(resp, 0)
          /\ UNCHANGED env_key
       \/ /\ \E ci \in ReconfigureConnInfos, resp \in ConfigureResponses,
                fault \in {"none", "token"} :
                reconfigure("ep1", ci, <<>>, <<>>, resp, fault)
          /\ UNCHANGED env_key
       \/ /\ \E ci \in ReconfigureConnInfos \ {<<>>} :
                update_pageservers_in_config("ep1", ci[1], "none")
          /\ UNCHANGED env_key
       \/ RotateKey

SpecPush == Init /\ [][NextPush]_vars

\* The ComputeSpec built by start: one endpoint of any mode, with or without
\* cluster settings in its endpoint.json, started with every topology and
\* safekeeper list, up to the first suspension of a start that spawned
NextBuild ==
    /\ UNCHANGED <<creating, jwt, env_key, access, manager, guard_log>>
    /\ \/ /\ endpoints = <<>>
          /\ \E mode \in Modes : Create("ep1", "t1", "tl1", 0, mode, "none")
       \/ \E cluster \in ClusterOverrides : EditClusterOverride("ep1", cluster)
       \/ load([e \in EndpointIds |-> "none"])
       \/ EditPostgresqlConf("ep1")
       \/ \E args \in BuildStartArgs,
             fault \in {"none", "write_config", "write_config_torn"} :
             start("ep1", args, fault)

SpecBuild == Init /\ [][NextBuild]_vars

\* JwtAuth::decode alone: a JwtAuth with any keys, tokens signed with any pair
\* from any claims, and tokens with payloads made by others
InitDecode ==
    /\ InitEndpoints
    /\ \E keys \in KeySets : jwt = SwappableJwtAuth_new(keys)

NextDecode ==
    \/ \E claims \in ClaimsValues, pair \in KeyPairs :
          VerifyLoad("v1", encode_from_key_file(claims, pair), <<claims>>)
    \/ \E payload \in {UnknownScopePayload, EmptyEndpointPayload}, pair \in KeyPairs :
          VerifyLoad("v1", [signer |-> pair, payload |-> payload], <<>>)
    \/ VerifyFinish("v1")

SpecDecode == InitDecode /\ [][NextDecode]_vars

\* The claims of the tokens presented while the keys are swapped
TenantClaims == [tenant_id |-> <<"t1">>, endpoint_id |-> <<>>, scope |-> "Tenant"]

\* Decode calls running while the JwtAuth is swapped
NextSwap ==
    \/ \E keys \in {ks \in KeySets : Len(ks) <= 1} : swap(keys)
    \/ \E c \in Calls, pair \in DecodingKeys :
          VerifyLoad(c, encode_from_key_file(TenantClaims, pair), <<TenantClaims>>)
    \/ \E c \in Calls : VerifyFinish(c)

SpecSwap == Init /\ [][NextSwap]_vars

----------------------------------------------------------------------------
\* Properties

InFlight(p) == pc = "polling" /\ cur.child = p

HasMarker(e) == disk[e].pgdata /\ disk[e].marker

PortAnswers(e) == CanConnect(endpoints[e].pg_port)

NonStopped(e) == HasMarker(e) \/ PortAnswers(e)

\* A step in which start is called on e
StartCalled(e) ==
    /\ pc = "idle"
    /\ \/ pc' = "polling" /\ cur'.ep = e
       \/ last' # last /\ last'.op = "start" /\ last'.ep = e

\* A step in which the start call in flight returns after a status response
PollReturns == pc = "polling" /\ pc' = "idle" /\ last'.result # "abandoned"

\* A step in which the start call in flight polls again
PollRetries == pc = "polling" /\ pc' = "polling" /\ cur' # cur

UnexpectedStatuses ==
    {"Empty", "ConfigurationPending", "Configuration", "TerminationPendingFast",
     "TerminationPendingImmediate", "Terminated", "RefreshConfigurationPending",
     "RefreshConfiguration"}

\* C1: a start call that ends after the spawn without success (pid-file write
\* failure, timeout, Failed, unexpected status, abandonment) has killed and
\* reaped the child when it ends; the guard is armed only while the call is in
\* flight and is disarmed only by a successful return, so a child that has not
\* been reaped outside a call belongs to a start that returned success.
C1_FailedStartReapsChild ==
    /\ [](\A p \in Pids :
            /\ procs[p].guard = "armed" => InFlight(p)
            /\ procs[p].guard = "fired" => procs[p].state = "reaped"
            /\ (procs[p].state # "reaped" /\ ~InFlight(p)) => procs[p].guard = "disarmed")
    /\ []((last.op = "start" /\ last.child # 0 /\ last.result # "ok")
            => procs[last.child].state = "reaped")
    /\ [][\A p \in Pids :
            (procs[p].guard = "armed" /\ procs'[p].guard = "disarmed")
                => (last'.op = "start" /\ last'.result = "ok" /\ last'.child = p)]_vars

C1_Witness ==
    /\ last.op = "start" /\ last.result = "abandoned" /\ last.seen # {}
    /\ procs[last.child].state = "reaped"

\* C2: at most one Primary endpoint of a (tenant, timeline) pair is in a
\* non-Stopped state at any time.
C2_AtMostOnePrimaryNonStopped ==
    \A e1, e2 \in DOMAIN endpoints :
        (/\ e1 # e2
         /\ endpoints[e1].mode = "Primary" /\ endpoints[e2].mode = "Primary"
         /\ endpoints[e1].tenant_id = endpoints[e2].tenant_id
         /\ endpoints[e1].timeline_id = endpoints[e2].timeline_id)
        => (~NonStopped(e1) \/ ~NonStopped(e2))

ConflictingPrimary(tenant_id, timeline_id) ==
    \E k \in DOMAIN endpoints :
        /\ endpoints[k].tenant_id = tenant_id
        /\ endpoints[k].timeline_id = timeline_id
        /\ endpoints[k].mode = "Primary"
        /\ NonStopped(k)

\* C3: create of a Primary fails with the duplicate-primary error, persisting
\* and registering nothing, whenever a registered Primary of the same tenant
\* and timeline is not Stopped; create is rejected with that error in no other
\* case, in particular never for a Static or Replica endpoint.
C3_CreateRejectsDuplicatePrimary ==
    [][(last' # last /\ last'.op = "create") =>
          LET a == last'.args
              conflict == a.mode = "Primary"
                          /\ ConflictingPrimary(a.tenant_id, a.timeline_id)
          IN  /\ conflict => /\ last'.result = "duplicate_primary"
                             /\ endpoints' = endpoints
                             /\ disk' = disk
              /\ last'.result = "duplicate_primary" => conflict]_vars

C3_Witness ==
    /\ last.op = "create" /\ last.result = "duplicate_primary"
    /\ last.ep \notin DOMAIN endpoints

\* C4: every status query returns the value the truth table gives for the
\* marker file and the connectability of the data port as they are at the time
\* of the query: (yes, yes) Running, (no, no) Stopped, (yes, no) Crashed,
\* (no, yes) RunningNoPidfile.
C4_StatusIsDerived ==
    [][(last' # last /\ last'.op = "status") =>
          LET m == HasMarker(last'.ep)
              c == PortAnswers(last'.ep)
              r == last'.result
          IN  /\ (m /\ c) => r = "Running"
              /\ (~m /\ ~c) => r = "Stopped"
              /\ (m /\ ~c) => r = "Crashed"
              /\ (~m /\ c) => r = "RunningNoPidfile"]_vars

C4_Witness == last.op = "status" /\ last.result = "RunningNoPidfile" /\ last.seq = 1

\* C5 as stated: with Init on every poll and a 200ms start timeout, start
\* fails with the timeout error within 300ms of the beginning of polling, the
\* child killed.
C5_TimeoutWithin300 ==
    (/\ last.op = "start" /\ last.result = "start_timeout"
     /\ last.args.start_timeout = 200 /\ last.seen \subseteq {"Init"})
    => (last.elapsed <= 300 /\ procs[last.child].state = "reaped")

\* C5 amended: with Init on every poll and a 200ms start timeout, every status
\* request is sent within 300ms of the beginning of polling, and start fails
\* with the timeout error, the child killed, when the first request that
\* completes later than 200ms returns: within 300ms plus the duration of that
\* request.
C5_TimeoutAfterLastRequest ==
    /\ []((pc = "polling" /\ cur.timeout = 200) => cur.elapsed <= 300)
    /\ [][(/\ PollReturns /\ cur.timeout = 200
           /\ last'.resp.status = "Init" /\ last'.seen \subseteq {"Init"})
          => (/\ last'.result = "start_timeout"
              /\ cur.elapsed <= 300
              /\ last'.elapsed > 200
              /\ last'.elapsed >= cur.elapsed
              /\ procs'[cur.child].state = "reaped")]_vars

C5_Witness ==
    /\ last.op = "start" /\ last.result = "start_timeout"
    /\ last.args.start_timeout = 200 /\ last.seen = {"Init"}
    /\ last.elapsed = 300
    /\ procs[last.child].state = "reaped"

\* C6: start called while the status is Running fails at once and changes
\* nothing: the working directory, the persisted Spec and the pid file are
\* as before and no process is spawned.
C6_StartWhileRunningHasNoEffect ==
    [][(\E e \in DOMAIN endpoints :
            StartCalled(e) /\ HasMarker(e) /\ PortAnswers(e))
       => (/\ last'.op = "start" /\ last'.result = "already_running"
           /\ last'.trace = <<>>
           /\ pc' = "idle"
           /\ disk' = disk
           /\ procs' = procs)]_vars

C6_Witness ==
    /\ last.op = "start" /\ last.result = "already_running"
    /\ disk[last.ep].config # <<>> /\ disk[last.ep].pgdata

\* C7: an Init response makes start poll again ATTEMPT_INTERVAL after the
\* response, exactly when the time elapsed at the response does not exceed the
\* start timeout; otherwise start fails with the start-timeout error; an Init
\* response never ends start with success.
C7_InitKeepsPolling ==
    [][/\ (PollRetries /\ cur'.resp.status = "Init")
            => /\ cur'.elapsed - ATTEMPT_INTERVAL >= cur.elapsed
               /\ cur'.elapsed - ATTEMPT_INTERVAL <= cur.timeout
               /\ procs' = procs
               /\ last' = last
       /\ (PollReturns /\ last'.resp.status = "Init")
            => /\ last'.result = "start_timeout"
               /\ last'.elapsed > cur.timeout
               /\ last'.elapsed >= cur.elapsed]_vars

C7_Witness ==
    /\ pc = "polling" /\ cur.resp.status = "Init"
    /\ cur.elapsed >= 2 * ATTEMPT_INTERVAL

\* C8: a Running response makes start return success with the guard disarmed
\* and the child neither killed nor reaped; start returns success on no other
\* response; a child whose guard was disarmed is never reaped by the guard.
C8_RunningIsSuccess ==
    /\ [][PollReturns =>
            /\ (last'.resp.status = "Running") <=> (last'.result = "ok")
            /\ last'.result = "ok" =>
                 /\ last'.resp.kind = "ok"
                 /\ last'.child = cur.child
                 /\ procs' = [procs EXCEPT ![cur.child].guard = "disarmed"]]_vars
    /\ [](\A p \in Pids : procs[p].guard = "disarmed" => procs[p].state # "reaped")
    /\ []((last.op = "start" /\ last.result = "ok")
            => procs[last.child].guard = "disarmed")

C8_Witness ==
    /\ pc = "idle" /\ last.op = "start" /\ last.result = "ok"
    /\ procs[last.child].state = "running"
    /\ procs[last.child].guard = "disarmed"

\* C9: a Failed response makes start fail in the same poll with the
\* start-failed error, whatever the time elapsed; the error carries the error
\* string of the response, or the placeholder when there is none.
C9_FailedFailsAtOnce ==
    /\ [](pc = "polling" => cur.resp.status # "Failed")
    /\ [][(PollReturns /\ last'.resp.status = "Failed")
          => (/\ last'.result = "start_failed"
              /\ last'.msg = (IF last'.resp.error = <<>>
                              THEN "<no error from compute_ctl>"
                              ELSE last'.resp.error[1])
              /\ procs'[cur.child].state = "reaped")]_vars

C9_Witness ==
    /\ last.op = "start" /\ last.result = "start_failed"
    /\ last.resp.error = <<>>
    /\ last.elapsed < last.args.start_timeout

\* C10: a response with any of the eight other statuses makes start fail in
\* the same poll with the unexpected-status error naming the status, whatever
\* the time elapsed; the loop never polls again after such a response.
C10_OtherStatusFailsAtOnce ==
    /\ [](pc = "polling" => cur.resp.status \notin UnexpectedStatuses)
    /\ [][PollReturns =>
            /\ (last'.resp.kind = "ok" /\ last'.resp.status \in UnexpectedStatuses)
                 => /\ last'.result = "unexpected_status"
                    /\ last'.msg = last'.resp.status
                    /\ procs'[cur.child].state = "reaped"
            /\ last'.result = "unexpected_status"
                 => last'.resp.status \in UnexpectedStatuses]_vars

C10_Witness ==
    /\ last.op = "start" /\ last.result = "unexpected_status"
    /\ last.resp.status = "Empty" /\ last.seen = {}
    /\ last.elapsed < last.args.start_timeout

\* C11: a connection error on a status poll makes start sleep ATTEMPT_INTERVAL
\* and poll again exactly when the time elapsed at the error does not exceed
\* the start timeout; it ends start, with the connect-timeout error and the
\* child killed, only once the deadline is exceeded; a Running response
\* yields success whatever connection errors came before it.
C11_ConnectErrorTolerated ==
    [][/\ (PollRetries /\ cur'.resp.status = "connect")
            => /\ cur'.elapsed - ATTEMPT_INTERVAL >= cur.elapsed
               /\ cur'.elapsed - ATTEMPT_INTERVAL <= cur.timeout
               /\ procs' = procs
               /\ last' = last
       /\ (PollReturns /\ last'.resp.status = "connect")
            => /\ last'.result = "connect_timeout"
               /\ last'.elapsed > cur.timeout
               /\ procs'[cur.child].state = "reaped"
       /\ (PollReturns /\ last'.resp.status = "Running" /\ "connect" \in cur.seen)
            => /\ last'.result = "ok"
               /\ procs' = [procs EXCEPT ![cur.child].guard = "disarmed"]]_vars

C11_Witness ==
    /\ last.op = "start" /\ last.result = "ok"
    /\ last.seen = {"connect"} /\ last.elapsed >= 2 * ATTEMPT_INTERVAL

\* C12: the poll loop polls again only after an Init response or a connection
\* error; a status poll that fails otherwise (4xx/5xx answer, undecodable
\* body, token not minted) is not followed by another poll.
C12_OnlyConnectErrorsRetried ==
    [][PollRetries => cur'.resp.status \in {"Init", "connect"}]_vars

\* A step in which a reconfigure call returns
ReconfigureReturns == last' # last /\ last'.op = "reconfigure"

\* C13: reconfigure given a topology with an empty shard map fails with the
\* "no pageservers provided" error, unless the persisted documents could not
\* be read in the first place; in either case no configure request is issued
\* and the persisted Spec is as before the call.
C13_EmptyTopologyRejected ==
    [][(/\ ReconfigureReturns
        /\ last'.args.pageserver_conninfo # <<>>
        /\ DOMAIN last'.args.pageserver_conninfo[1].shards = {})
       => (/\ last'.result \in {"no_pageservers", "io_error", "parse_error"}
           /\ last'.result = "io_error"
                => (disk[last'.ep].config = <<>> \/ last'.msg \in {"open_config", "read_conf"})
           /\ last'.result = "parse_error" => "config.json" \in disk[last'.ep].torn
           /\ last'.pushed = <<>>
           /\ disk' = disk
           /\ procs' = procs)]_vars

C13_Witness ==
    /\ last.op = "reconfigure" /\ last.result = "no_pageservers"
    /\ last.args.pageserver_conninfo = <<EmptyConnInfo>>
    /\ last.args.safekeepers # <<>>
    /\ disk[last.ep].config # <<>>
    /\ HttpTargets(last.ep) # {}

\* The fields of a Spec that reconfigure may replace
ReconfigurableFields ==
    {"pageserver_connection_info", "shard_stripe_size", "safekeeper_connstrings",
     "safekeepers_generation", "cluster"}

\* C14: the Spec pushed by reconfigure differs from the persisted Spec only in
\* what the caller supplied: with the topology omitted, its topology and stripe
\* size are the persisted ones; with the safekeeper list omitted, its
\* safekeeper connection strings and generation are the persisted ones; the
\* postgresql.conf text is the current content of the file, and every other
\* field is the persisted one.
C14_OmittedFieldsUnchanged ==
    [][(ReconfigureReturns /\ last'.pushed # <<>>)
       => LET new == last'.pushed[1]
              old == disk[last'.ep].config[1]
              a == last'.args
          IN  /\ a.pageserver_conninfo = <<>>
                    => /\ new.pageserver_connection_info = old.pageserver_connection_info
                       /\ new.shard_stripe_size = old.shard_stripe_size
              /\ a.safekeepers = <<>>
                    => /\ new.safekeeper_connstrings = old.safekeeper_connstrings
                       /\ new.safekeepers_generation = old.safekeepers_generation
              /\ new.cluster =
                    [old.cluster EXCEPT !.postgresql_conf = disk[last'.ep].pgconf]
              /\ DOMAIN new = DOMAIN old
              /\ \A f \in DOMAIN old \ ReconfigurableFields : new[f] = old[f]]_vars

C14_Witness ==
    /\ last.op = "reconfigure" /\ last.result = "ok"
    /\ last.args.pageserver_conninfo = <<>>
    /\ last.args.safekeepers = <<>>
    /\ last.args.safekeeper_generation # <<>>
    /\ last.pushed[1].cluster # disk[last.ep].config[1].cluster
    /\ last.pushed[1].safekeepers_generation = disk[last.ep].config[1].safekeepers_generation

\* C15: reconfigure returns success exactly when the configure request is
\* answered with a 2xx status; an answer with any other status makes it fail
\* with the rejected error.
C15_SuccessOnlyOn2xx ==
    [][(ReconfigureReturns /\ last'.http # 0)
       => (/\ last'.result = "ok" <=> (last'.http >= 200 /\ last'.http <= 299)
           /\ last'.result # "ok" => last'.result = "rejected")]_vars

\* C16: after a successful reconfigure that replaced the topology or the
\* safekeeper list, the persisted Spec is the Spec that was pushed.
C16_ReconfigurePersistsSpec ==
    (/\ last.op = "reconfigure" /\ last.result = "ok"
     /\ (last.args.pageserver_conninfo # <<>> \/ last.args.safekeepers # <<>>))
    => disk[last.ep].config = last.pushed

\* A step in which a stop call returns
StopReturns == last' # last /\ last'.op = "stop"

Occurs(step, trace) == \E i \in DOMAIN trace : trace[i] = step

Precedes(a, b, trace) ==
    \A i, j \in DOMAIN trace : (trace[i] = a /\ trace[j] = b) => i < j

\* The primary stop action of a mode
PrimaryStep(mode) == IF mode = "ImmediateTerminate" THEN "terminate" ELSE "pg_ctl_stop"

\* C17: a stop that gets to the wait for the exit of compute_ctl has sent
\* SIGTERM, before the wait, exactly when destroy was requested or the mode is
\* not Fast; a stop that does not get there sends no signal.
C17_SigtermIffDestroyOrNotFast ==
    [][StopReturns =>
         LET t == last'.trace
             a == last'.args
         IN  /\ Occurs("wait", t)
                  => (Occurs("sigterm", t) <=> (a.destroy \/ a.mode # "Fast"))
             /\ Occurs("sigterm", t) => Occurs("wait", t)
             /\ Precedes("sigterm", "wait", t)
             /\ last'.result \in {"ok", "wait_failed"} => Occurs("wait", t)]_vars

C17_Witness ==
    /\ last.op = "stop" /\ last.result = "ok"
    /\ last.args.mode = "Fast" /\ ~last.args.destroy
    /\ last.trace = <<"pg_ctl_stop", "wait">>
    /\ procs[last.child].state = "exited"

\* C18: a stop that returns success has performed, in this order, the primary
\* stop action of its mode, the wait for the exit of the process named by the
\* pid file, and, exactly when destroy was requested, the removal of the
\* endpoint directory; that process is not running when stop returns, and
\* the directory of an endpoint disappears only in such a stop.
C18_StopOrder ==
    /\ [][(StopReturns /\ last'.result = "ok") =>
            LET t == last'.trace
                a == last'.args
            IN  /\ t[1] = PrimaryStep(a.mode)
                /\ Occurs("wait", t)
                /\ Precedes(PrimaryStep(a.mode), "wait", t)
                /\ Precedes("wait", "rm_dir", t)
                /\ Occurs("rm_dir", t) <=> a.destroy
                /\ a.destroy <=> (disk[last'.ep].dir /\ ~disk'[last'.ep].dir)
                /\ last'.child = disk[last'.ep].pidfile
                /\ procs'[last'.child].state # "running"]_vars
    /\ [][\A e \in EndpointIds :
            (disk[e].dir /\ ~disk'[e].dir)
               => /\ last'.op = "stop" /\ last'.ep = e /\ last'.result = "ok"
                  /\ last'.args.destroy
                  /\ procs'[disk[e].pidfile].state # "running"]_vars

C18_Witness ==
    /\ last.op = "stop" /\ last.result = "ok" /\ last.args.destroy
    /\ last.args.mode = "ImmediateTerminate"
    /\ last.trace = <<"terminate", "sigterm", "wait", "rm_dir">>
    /\ ~disk[last.ep].dir
    /\ procs[last.child].state = "exited"

\* The ports get_port looks at
PortsInUse ==
    UNION {{endpoints[e].pg_port, endpoints[e].external_http_port} : e \in DOMAIN endpoints}

\* C19 as stated: get_port is one more than the largest data or control port
\* of the registry, and the base port itself when the registry is empty.
C19_BasePortWhenEmpty ==
    /\ DOMAIN endpoints # {}
          => (get_port - 1 \in PortsInUse /\ \A p \in PortsInUse : p < get_port)
    /\ DOMAIN endpoints = {} => get_port = base_port

\* C19 amended: get_port is one more than the largest data or external HTTP
\* port of the registry, and one more than the base port when the registry is
\* empty.
C19_OneAboveBaseWhenEmpty ==
    /\ DOMAIN endpoints # {}
          => (get_port - 1 \in PortsInUse /\ \A p \in PortsInUse : p < get_port)
    /\ DOMAIN endpoints = {} => get_port = base_port + 1

C19_Witness ==
    /\ Cardinality(DOMAIN endpoints) = 2
    /\ \E e1, e2 \in DOMAIN endpoints :
          /\ endpoints[e1].pg_port = base_port + 1
          /\ endpoints[e1].external_http_port = base_port + 2
          /\ endpoints[e2].pg_port = get_port - 1
          /\ endpoints[e2].external_http_port < endpoints[e2].pg_port

\* A step in which load returns
LoadReturns == last' # last /\ last'.op = "load"

\* C20: load fails, building no registry, exactly when some entry of the
\* directory cannot be read for a reason other than not-found (another I/O
\* error, a parse error, an entry that is not a directory); otherwise it
\* succeeds, and the registry holds exactly the entries whose endpoint.json
\* was there, each as persisted, the vanished ones being skipped.
C20_LoadSkipsOnlyNotFound ==
    [][LoadReturns =>
         LET f == last'.args.faults
             entries == {e \in EndpointIds : disk[e].dir \/ f[e] = "not_dir"}
             torn == {e \in entries : "endpoint.json" \in disk[e].torn}
             gone == {e \in entries : f[e] = "vanished"
                                       \/ (/\ f[e] \in {"none", "parse"}
                                           /\ disk[e].meta = <<>>
                                           /\ e \notin torn)}
             fatal == {e \in entries \ gone : f[e] # "none" \/ e \in torn}
         IN  /\ fatal # {} => /\ last'.result = "load_failed"
                              /\ last'.loaded = <<>>
                              /\ endpoints' = endpoints
             /\ fatal = {} => /\ last'.result = "ok"
                              /\ last'.loaded = <<endpoints'>>
                              /\ DOMAIN endpoints' = entries \ gone
                              /\ \A e \in entries \ gone :
                                    endpoints'[e] = disk[e].meta[1]
             /\ disk' = disk]_vars

C20_Witness ==
    /\ last.op = "load" /\ last.result = "ok"
    /\ last.args.faults["ep1"] = "vanished" /\ disk["ep1"].meta # <<>>
    /\ DOMAIN endpoints = {"ep2"}

\* The decode calls that have returned
DecodeReturned(c) == jwt.calls[c].state = "done"

\* The positions of the keys of the call's JwtAuth that accept its token
AcceptingKeys(c) ==
    {i \in 1..Len(jwt.calls[c].snapshot) :
        decode_with_key(jwt.calls[c].token, jwt.calls[c].snapshot[i]).ok}

\* C21: JwtAuth::decode tries the keys in their stored order and returns the
\* result of the first key that accepts the token, trying no later key; when
\* every key fails it returns the error of the last key; with no keys it
\* returns the error "no JWT decoding keys configured".
C21_FirstSuccessElseLastError ==
    \A c \in Calls : DecodeReturned(c) =>
        LET call == jwt.calls[c]
            keys == call.snapshot
            n == Len(keys)
        IN  /\ keys = <<>> => call.result = NoKeysError
            /\ AcceptingKeys(c) # {} =>
                  LET first == CHOOSE i \in AcceptingKeys(c) :
                                   \A j \in AcceptingKeys(c) : i <= j
                  IN  /\ call.result.ok
                      /\ call.result.by = first
                      /\ call.result.claims = decode_with_key(call.token, keys[first]).claims
            /\ (keys # <<>> /\ AcceptingKeys(c) = {}) =>
                  /\ ~call.result.ok
                  /\ call.result.by = n
                  /\ call.result.err = decode_with_key(call.token, keys[n]).err

\* A decode has returned where every key failed and the first key's error
\* differs from the last key's
C21_Witness ==
    \E c \in Calls :
        /\ DecodeReturned(c)
        /\ Len(jwt.calls[c].snapshot) >= 2
        /\ AcceptingKeys(c) = {}
        /\ decode_with_key(jwt.calls[c].token, jwt.calls[c].snapshot[1]).err
             # jwt.calls[c].result.err

\* The key pairs whose public key is among the keys of the call's JwtAuth
KeysHeld(c) == {jwt.calls[c].snapshot[i] : i \in 1..Len(jwt.calls[c].snapshot)}

\* C22: decoding a token made by encode_from_key_file from any claims with
\* any key pair returns exactly those claims when the JwtAuth holds the
\* pair's public key, and fails with the signature error when the JwtAuth
\* holds only other keys.
C22_RoundTrip ==
    \A c \in Calls : (DecodeReturned(c) /\ jwt.calls[c].signed # <<>>) =>
        LET call == jwt.calls[c]
        IN  /\ call.token.signer \in KeysHeld(c) =>
                  /\ call.result.ok
                  /\ call.result.claims = call.signed
            /\ (KeysHeld(c) # {} /\ call.token.signer \notin KeysHeld(c)) =>
                  /\ ~call.result.ok
                  /\ call.result.err = "InvalidSignature"

\* A token for the renamed scope GenerationsApi with no endpoint_id has been
\* decoded by the second key of a JwtAuth
C22_Witness ==
    \E c \in Calls :
        /\ DecodeReturned(c)
        /\ jwt.calls[c].signed # <<>>
        /\ jwt.calls[c].signed[1].scope = "GenerationsApi"
        /\ jwt.calls[c].signed[1].endpoint_id = <<>>
        /\ jwt.calls[c].result.ok
        /\ jwt.calls[c].result.by = 2

\* A call that loads takes the JwtAuth installed by the latest swap
LoadTakesLatest ==
    \A c \in Calls :
        (jwt.calls[c].state # "loaded" /\ jwt'.calls[c].state = "loaded") =>
            /\ jwt'.calls[c].snapshot = jwt.history[Len(jwt.history)]
            /\ jwt'.calls[c].version = Len(jwt.history)

\* Every call holds, and is answered from, the JwtAuth it loaded, and no step
\* of a call or of a swap is disabled by the other
C23_SnapshotHeld ==
    /\ jwt.installed = jwt.history[Len(jwt.history)]
    /\ \A c \in Calls :
          LET call == jwt.calls[c]
          IN  /\ call.state = "loaded" =>
                    /\ call.snapshot = jwt.history[call.version]
                    /\ ENABLED VerifyFinish(c)
                    /\ Len(jwt.history) <= MaxSwaps =>
                          \A keys \in {ks \in KeySets : Len(ks) <= 1} : ENABLED swap(keys)
              /\ call.state = "done" =>
                    /\ call.version \in 1..Len(jwt.history)
                    /\ call.result = decode(jwt.history[call.version], call.token)
    /\ \A c \in Calls :
          jwt.calls[c].state = "idle" =>
              ENABLED VerifyLoad(c, encode_from_key_file(TenantClaims, "k1"), <<TenantClaims>>)

\* C23: with decode calls running while the JwtAuth is swapped, every decode
\* evaluates its token against one whole JwtAuth, the one installed when it
\* called load(): a call that loaded before a swap finishes against the old
\* keys, a call that loads after the swap holds the new keys, and neither
\* operation waits for the other (a loaded call can always finish, and a swap
\* can always be made while calls are in progress).
C23_DecodeUsesOneSnapshot == []C23_SnapshotHeld /\ [][LoadTakesLatest]_vars

\* A decode that loaded the old keys has returned after a swap, with a result
\* the new keys would not have given
C23_Witness ==
    \E c \in Calls :
        /\ DecodeReturned(c)
        /\ jwt.calls[c].version < Len(jwt.history)
        /\ jwt.calls[c].result.ok
        /\ ~decode(jwt.installed, jwt.calls[c].token).ok

\* start has spawned compute_ctl and has not polled its status yet
StartSuspended == pc = "polling" /\ cur.resp = NoResp

\* The Spec in the endpoint's config.json
PersistedSpec(e) == disk[e].config[1]

\* The shards of the topology whose first pageserver has no libpq URL
ShardsWithoutUrl(conninfo) ==
    {i \in 0..(ShardCountCount(conninfo.shard_count) - 1) :
        /\ <<i, conninfo.shard_count>> \in DOMAIN conninfo.shards
        /\ conninfo.shards[<<i, conninfo.shard_count>>] # <<>>
        /\ Head(conninfo.shards[<<i, conninfo.shard_count>>]).libpq_url = <<>>}

\* The URLs of the first pageserver of every shard, in shard order, with a
\* comma between neighbours
AllShardUrls(conninfo) ==
    [k \in 1..(2 * ShardCountCount(conninfo.shard_count) - 1) |->
        IF k % 2 = 1
        THEN Head(conninfo.shards[<<(k - 1) \div 2, conninfo.shard_count>>]).libpq_url[1]
        ELSE ","]

\* C24: the pageserver_connstring of the Spec written by start is all or
\* nothing: it is None when the first pageserver of some shard has no libpq
\* URL, and otherwise the URLs of the first pageserver of every shard, in
\* shard order, joined by commas; never the URLs of a subset of the shards.
C24_ConnstringAllOrNothing ==
    StartSuspended =>
        LET conninfo == cur.args.pageserver_conninfo
            connstring == PersistedSpec(cur.ep).pageserver_connstring
        IN  IF ShardsWithoutUrl(conninfo) # {}
            THEN connstring = <<>>
            ELSE connstring = <<AllShardUrls(conninfo)>>

\* A start with shards {0: [A, C], 1: [B]} has written "A,B"
C24_Witness ==
    /\ StartSuspended
    /\ cur.args.pageserver_conninfo.shard_count = 2
    /\ Len(cur.args.pageserver_conninfo.shards[<<0, 2>>]) = 2
    /\ PersistedSpec(cur.ep).pageserver_connstring = << <<"A", ",", "B">> >>

\* The ids of the safekeepers of the environment
KnownSafekeepers == {env_safekeepers[i].id : i \in 1..Len(env_safekeepers)}

\* The address compute connects to on the safekeeper with this id
SafekeeperAddress(sk_id) ==
    LET sk == CHOOSE x \in {env_safekeepers[i] : i \in 1..Len(env_safekeepers)} :
                  x.id = sk_id
    IN  <<"127.0.0.1", sk.compute_port>>

\* The safekeeper ids of the start that returned last
LastStartSafekeepers == last.args.safekeepers[1]

\* C25: build_safekeepers_connstrs gives, for a Primary endpoint, one address
\* per requested safekeeper id in the requested order and fails when an id is
\* not a safekeeper of the environment; for a Static or Replica endpoint it
\* gives the empty list for every input, unknown ids included.
C25_SafekeeperConnstrs ==
    /\ StartSuspended =>
          LET ids == cur.args.safekeepers
              connstrs == PersistedSpec(cur.ep).safekeeper_connstrings
          IN  IF endpoints[cur.ep].mode = "Primary"
              THEN /\ \A i \in 1..Len(ids) : ids[i] \in KnownSafekeepers
                   /\ connstrs = [i \in 1..Len(ids) |-> SafekeeperAddress(ids[i])]
              ELSE connstrs = <<>>
    /\ (last.op = "start" /\ last.result = "unknown_safekeeper") =>
          /\ endpoints[last.ep].mode = "Primary"
          /\ \E i \in 1..Len(LastStartSafekeepers) :
                LastStartSafekeepers[i] \notin KnownSafekeepers
    /\ (/\ last.op = "start"
        /\ endpoints[last.ep].mode = "Primary"
        /\ \E i \in 1..Len(LastStartSafekeepers) :
              LastStartSafekeepers[i] \notin KnownSafekeepers) =>
          last.result = "unknown_safekeeper"

\* A Primary endpoint started with safekeepers 2, 1 has their addresses in
\* that order
C25_Witness ==
    /\ StartSuspended
    /\ endpoints[cur.ep].mode = "Primary"
    /\ cur.args.safekeepers = <<2, 1>>
    /\ PersistedSpec(cur.ep).safekeeper_connstrings
         = << <<"127.0.0.1", 5455>>, <<"127.0.0.1", 5454>> >>

\* A step in which a start call returns without having suspended
StartReturns == pc = "idle" /\ pc' = "idle" /\ last' # last /\ last'.op = "start"

\* A step in which start gets to its poll loop
StartSuspends == pc = "idle" /\ pc' = "polling"

\* The failures of start before config.json is written
FailedBeforePersist ==
    \/ last'.result \in {"unknown_safekeeper", "bad_topology"}
    \/ last'.result = "io_error" /\ last'.msg \in {"write_config", "write_config_torn"}

\* C26: start builds and writes the Spec before it spawns compute_ctl, so a
\* start that fails to resolve the safekeepers or the topology or to write
\* config.json spawns nothing and leaves config.json as it was, or, when the
\* write broke off, empty; and the pid of the spawned process is in the
\* pidfile, written after the spawn, when start gets to its first status poll.
C26_PersistThenSpawnThenPidfile ==
    [][/\ StartSuspends =>
            /\ cur'.child \notin DOMAIN procs
            /\ DOMAIN procs' = DOMAIN procs \cup {cur'.child}
            /\ disk'[cur'.ep].config # <<>>
            /\ disk'[cur'.ep].config[1].pageserver_connection_info
                 = cur'.args.pageserver_conninfo
            /\ disk'[cur'.ep].pidfile = cur'.child
            /\ cur'.resp = NoResp
            /\ Occurs("write_config", cur'.trace)
            /\ Occurs("spawn", cur'.trace)
            /\ Occurs("write_pidfile", cur'.trace)
            /\ Precedes("write_config", "spawn", cur'.trace)
            /\ Precedes("spawn", "write_pidfile", cur'.trace)
       /\ (StartReturns /\ FailedBeforePersist) =>
            /\ procs' = procs
            /\ IF last'.result = "io_error" /\ last'.msg = "write_config_torn"
               THEN /\ disk'[last'.ep].config = <<>>
                    /\ "config.json" \in disk'[last'.ep].torn
               ELSE disk'[last'.ep].config = disk[last'.ep].config
            /\ ~Occurs("spawn", last'.trace)
       /\ \A p \in DOMAIN procs' \ DOMAIN procs : disk'[procs'[p].ep].config # <<>>]_vars

\* A start that could not resolve its safekeepers has returned, and a later
\* start of the same endpoint is at its first poll with the pid in the pidfile
C26_Witness ==
    /\ StartSuspended
    /\ disk[cur.ep].pidfile = cur.child
    /\ procs[cur.child].state = "running"
    /\ last.op = "start"
    /\ last.result = "unknown_safekeeper"

\* C27: when the endpoint carries cluster settings, the Spec built by start
\* has them as its cluster, then the role and database of the test user
\* (when create_test_user is set) pushed onto them and the current text of
\* postgresql.conf in place of theirs, whatever the settings contained.
C27_OverrideThenMerge ==
    (StartSuspended /\ endpoints[cur.ep].cluster # <<>>) =>
        LET override == endpoints[cur.ep].cluster[1]
            cluster == PersistedSpec(cur.ep).cluster
        IN  /\ SubSeq(cluster.roles, 1, Len(override.roles)) = override.roles
            /\ SubSeq(cluster.databases, 1, Len(override.databases)) = override.databases
            /\ cur.args.create_test_user =>
                  /\ \E i \in DOMAIN cluster.roles : cluster.roles[i] = "test"
                  /\ \E i \in DOMAIN cluster.databases :
                        cluster.databases[i] = [name |-> "neondb", owner |-> "test"]
            /\ ~cur.args.create_test_user =>
                  /\ cluster.roles = override.roles
                  /\ cluster.databases = override.databases
            /\ cluster.postgresql_conf = disk[cur.ep].pgconf

\* An endpoint whose settings name the role admin and an old postgresql.conf
\* text was started with create_test_user after postgresql.conf was edited
C27_Witness ==
    /\ StartSuspended
    /\ endpoints[cur.ep].cluster # <<>>
    /\ endpoints[cur.ep].cluster[1].roles = <<"admin">>
    /\ cur.args.create_test_user
    /\ Len(disk[cur.ep].pgconf) = 2
    /\ PersistedSpec(cur.ep).cluster.roles = <<"admin", "test">>
    /\ PersistedSpec(cur.ep).cluster.postgresql_conf # endpoints[cur.ep].cluster[1].postgresql_conf

\* A step in which reconfigure returns after sending its request
ReconfigurePushes == ReconfigureReturns /\ last'.pushed # <<>>

\* The bundle new_endpoint would make from the key files as they are now
BundleMadeNow == [jwks |-> create_jwks_from_pem(read_public_key), tls |-> <<>>]

\* The token generate_auth_token makes for the endpoint from the key files as
\* they are now
TokenMadeNow(e) == [compute_id |-> e, signer |-> env_key]

\* C28 as stated: every reconfigure sends, with the Spec, a compute_ctl_config
\* made for that call, in a request bearing a token made for that call.
C28_BundleMintedPerCall ==
    [][ReconfigurePushes =>
          /\ last'.bundle = <<BundleMadeNow>>
          /\ last'.token = <<TokenMadeNow(last'.ep)>>]_vars

\* C28 (amended): every reconfigure sends, with the Spec, the
\* compute_ctl_config stored in config.json, which is the one the endpoint
\* was given when it was created, in a request bearing a token made for that
\* call.
C28_BundlePersistedTokenFresh ==
    /\ [](\A e \in DOMAIN endpoints :
            disk[e].ctl_config # <<>> =>
                disk[e].ctl_config = <<endpoints[e].compute_ctl_config>>)
    /\ [][ReconfigurePushes =>
            /\ last'.bundle # <<>>
            /\ last'.bundle = disk[last'.ep].ctl_config
            /\ last'.token = <<TokenMadeNow(last'.ep)>>]_vars

\* A reconfigure after the key files were replaced has sent the bundle with
\* the old public key and a token signed with the new private key
C28_Witness ==
    /\ last.op = "reconfigure"
    /\ last.pushed # <<>>
    /\ last.result = "ok"
    /\ last.bundle # <<BundleMadeNow>>
    /\ last.bundle = disk[last.ep].ctl_config
    /\ last.token = <<TokenMadeNow(last.ep)>>

\* A step in which the create call for this endpoint id runs new_endpoint
CreateCommits(id) ==
    /\ id \in DOMAIN creating
    /\ creating[id].state = "checked"
    /\ creating'[id].state = "done"

\* The create calls that went through, for a Primary of the timeline
Created(tenant_id, timeline_id) ==
    {id \in DOMAIN creating :
        /\ creating[id].state = "done"
        /\ creating[id].mode = "Primary"
        /\ creating[id].tenant_id = tenant_id
        /\ creating[id].timeline_id = timeline_id
        /\ disk[id].meta # <<>>}

\* C29: the conflict check of create is best effort: a create call that has
\* passed the check registers its endpoint without looking again, so two
\* calls for a Primary of the same timeline that both check before the
\* other's endpoint is registered and non-stopped both pass and both succeed,
\* even when the other's endpoint is registered and running by the time
\* new_endpoint runs.
C29_CheckThenActRace ==
    [][\A id \in EndpointIds :
          CreateCommits(id) =>
              /\ last'.op = "create" /\ last'.ep = id /\ last'.result = "ok"
              /\ id \in DOMAIN endpoints'
              /\ disk'[id].meta = <<endpoints'[id]>>]_vars

\* Two create calls for a Primary of the same timeline have both succeeded;
\* when the second ran new_endpoint the first endpoint was registered and
\* running
C29_Witness ==
    /\ Cardinality(Created("t1", "tl1")) = 2
    /\ \E id \in Created("t1", "tl1") : creating[id].raced

\* The three ports of an endpoint of the registry
PortsOf(e) ==
    {endpoints[e].pg_port, endpoints[e].external_http_port,
     endpoints[e].internal_http_port}

\* The endpoint was created with no port given: its data port came from get_port
PortsUnspecified(e) == endpoints[e].pg_port \notin CreatePorts

\* C30: after create calls made one after the other with no port given, the
\* data, external HTTP and internal HTTP ports of the endpoints of the
\* registry are pairwise distinct: no port of an endpoint equals a port of
\* an endpoint created earlier.
C30_PortsPairwiseDistinct ==
    \A e1, e2 \in DOMAIN endpoints :
        (e1 # e2 /\ PortsUnspecified(e1) /\ PortsUnspecified(e2)) =>
            PortsOf(e1) \cap PortsOf(e2) = {}

\* The times one iteration of the poll loop may take: the status request and
\* the sleep
IterationTimes == {latency + 100 : latency \in Latencies}

\* C31: a start call with a finite start_timeout returns when every status
\* request completes: an iteration of the poll loop adds the time of the
\* request and the 100ms sleep and nothing else, and once the time elapsed
\* exceeds start_timeout a poll answering Init or failing ends the call.
C31_StartReturnsEventually ==
    /\ (pc = "polling") ~> (pc = "idle")
    /\ [][PollRetries =>
            /\ cur'.elapsed - cur.elapsed \in IterationTimes
            /\ cur'.elapsed - 100 <= cur.timeout]_vars
    /\ [](pc = "polling" => cur.elapsed <= cur.timeout + 100 + 50 * MaxLatencySteps)

\* A start with a timeout of 200ms has polled Init and was ended by the
\* timeout
C31_Witness ==
    /\ last.op = "start"
    /\ last.result = "start_timeout"
    /\ last.args.start_timeout = 200
    /\ "Init" \in last.seen
    /\ last.elapsed > 200

\* The results of start that report the deadline
TimeoutResults == {"start_timeout", "connect_timeout"}

\* C32: the deadline of start is looked at only after a poll that answers
\* Init or fails: a Running answer makes start succeed also when the time
\* elapsed exceeds start_timeout, and a Failed answer or an answer with an
\* unexpected status ends start with its own error, never with a timeout
\* error.
C32_DeadlineOnlyOnInitOrError ==
    [][PollReturns =>
          LET resp == last'.resp
          IN  /\ (resp.kind = "ok" /\ resp.status = "Running") => last'.result = "ok"
              /\ (resp.kind = "ok" /\ resp.status = "Failed") =>
                    last'.result = "start_failed"
              /\ (resp.kind = "ok" /\ resp.status \in UnexpectedStatuses) =>
                    last'.result = "unexpected_status"
              /\ last'.result \in TimeoutResults =>
                    /\ resp.kind = "err" \/ resp.status = "Init"
                    /\ last'.elapsed > cur.timeout
              /\ last'.result = "start_timeout" => resp.kind = "ok"
              /\ last'.result = "connect_timeout" => resp.kind = "err"]_vars

\* A start has succeeded on a Running answer that came after the deadline
C32_Witness ==
    /\ last.op = "start"
    /\ last.result = "ok"
    /\ last.resp.status = "Running"
    /\ last.elapsed > last.args.start_timeout

\* C33: reconfigure given a topology puts it, and its stripe size, into the
\* Spec it pushes and leaves pageserver_connstring as it was read from
\* config.json: the string is neither made again from the new topology nor
\* removed, so the pushed Spec may carry a string that does not belong to its
\* topology.
C33_ConnstringNotRecomputed ==
    [][(ReconfigurePushes /\ last'.args.pageserver_conninfo # <<>>) =>
          LET pushed == last'.pushed[1]
              persisted == disk[last'.ep].config[1]
              conninfo == last'.args.pageserver_conninfo[1]
          IN  /\ pushed.pageserver_connection_info = conninfo
              /\ pushed.shard_stripe_size = conninfo.stripe_size
              /\ pushed.pageserver_connstring = persisted.pageserver_connstring]_vars

\* A reconfigure has pushed the topology with the pageserver B together with
\* the connection string of the pageserver A
C33_Witness ==
    /\ last.op = "reconfigure"
    /\ last.result = "ok"
    /\ last.pushed # <<>>
    /\ last.pushed[1].pageserver_connection_info = MovedConnInfo
    /\ last.pushed[1].pageserver_connstring = << <<"A">> >>
    /\ pageserver_connstring(MovedConnInfo).val = <<"B">>

\* C34: in reconfigure the safekeepers_generation of the pushed Spec changes
\* only when a safekeeper list is given together with a generation: a
\* generation given without a list is ignored, and a list given without a
\* generation replaces the connection strings and keeps the generation of
\* config.json.
C34_GenerationNeedsList ==
    [][ReconfigurePushes =>
          LET pushed == last'.pushed[1]
              persisted == disk[last'.ep].config[1]
              safekeepers == last'.args.safekeepers
              generation == last'.args.safekeeper_generation
          IN  /\ pushed.safekeepers_generation =
                    IF safekeepers # <<>> /\ generation # <<>>
                    THEN generation[1] ELSE persisted.safekeepers_generation
              /\ pushed.safekeeper_connstrings =
                    IF safekeepers # <<>>
                    THEN [i \in 1..Len(safekeepers[1]) |->
                             SafekeeperAddress(safekeepers[1][i])]
                    ELSE persisted.safekeeper_connstrings]_vars

\* A reconfigure given a generation and no safekeeper list has pushed the
\* generation of config.json
C34_Witness ==
    /\ last.op = "reconfigure"
    /\ last.pushed # <<>>
    /\ last.args.safekeepers = <<>>
    /\ last.args.safekeeper_generation # <<>>
    /\ last.pushed[1].safekeepers_generation # last.args.safekeeper_generation[1]
    /\ last.pushed[1].safekeepers_generation = disk[last.ep].config[1].safekeepers_generation

\* A step in which endpoint.json of a registered endpoint is written again
RewritesMeta(id) ==
    /\ id \in DOMAIN endpoints
    /\ disk'[id].meta # <<>>
    /\ disk'[id].meta # disk[id].meta

\* C35: create does not reject an endpoint id that is registered: it writes
\* endpoint.json and postgresql.conf of that id again and replaces the entry
\* of the registry, so the registry keeps one record per id and the earlier
\* record is lost without an error.
C35_CreateOverwrites ==
    [][\A id \in EndpointIds :
          /\ (/\ last' # last /\ last'.op = "create" /\ last'.ep = id
              /\ id \in DOMAIN endpoints
              /\ last'.result # "duplicate_primary") =>
                 RewritesMeta(id)
          /\ RewritesMeta(id) =>
              /\ last'.op = "create" /\ last'.ep = id /\ last'.result = "ok"
              /\ DOMAIN endpoints' = DOMAIN endpoints
              /\ endpoints'[id] # endpoints[id]
              /\ disk'[id].meta = <<endpoints'[id]>>
              /\ disk'[id].pgconf = <<setup_pg_conf(endpoints'[id])>>
              /\ disk'[id].config = disk[id].config]_vars

\* The endpoint was created, started, and created again: the registry has
\* the ports of the second create, config.json is the one of the start
C35_Witness ==
    /\ last.op = "create"
    /\ last.result = "ok"
    /\ last.ep \in DOMAIN endpoints
    /\ disk[last.ep].config # <<>>
    /\ endpoints[last.ep].pg_port > base_port + 1
    /\ disk[last.ep].meta = <<endpoints[last.ep]>>

\* The topology has a shard with at least one pageserver for every shard
\* number below its shard count
TopologyComplete(conninfo) ==
    \A i \in 0..(ShardCountCount(conninfo.shard_count) - 1) :
        /\ <<i, conninfo.shard_count>> \in DOMAIN conninfo.shards
        /\ conninfo.shards[<<i, conninfo.shard_count>>] # <<>>

\* C36: when the topology given to start lacks the shard of some shard number
\* below its shard count, or has a shard without pageservers, start fails
\* before config.json is written and before compute_ctl is spawned;
\* pageserver_connstring is left out, and start goes on, only when the first
\* pageserver of a shard has no libpq URL.
C36_IncompleteTopologyFails ==
    /\ StartSuspended => TopologyComplete(cur.args.pageserver_conninfo)
    /\ (last.op = "start" /\ last.result = "bad_topology") =>
          ~TopologyComplete(last.args.pageserver_conninfo[1])
    /\ (StartSuspended /\ PersistedSpec(cur.ep).pageserver_connstring = <<>>) =>
          ShardsWithoutUrl(cur.args.pageserver_conninfo) # {}

\* The results of a stop whose primary action, or whose wait for compute_ctl,
\* failed
FailedStop(o) ==
    /\ o.op = "stop"
    /\ \/ o.result \in {"primary_failed", "wait_failed", "parse_error"}
       \/ o.result = "io_error" /\ o.msg = "read_pidfile"

\* C37: a stop whose primary action or whose wait for compute_ctl fails
\* returns that error and removes nothing, with destroy requested too: the
\* step in which it returns changes nothing on disk, and neither did its
\* steps before, but that a postgres which the primary action shut down took
\* its own postmaster.pid away (the postmaster.pid of a crashed postgres
\* stays).  The directory goes only in a stop with destroy that returns Ok,
\* after the wait found compute_ctl gone.
C37_FailedStopRemovesNothing ==
    [][/\ (pc = "idle" /\ pc' = "stopping") =>
            \A x \in DOMAIN disk :
               /\ disk'[x] = [disk[x] EXCEPT !.marker = disk'[x].marker]
               /\ disk'[x].marker => disk[x].marker
               /\ disk'[x].marker # disk[x].marker =>
                     \E p \in Pids : procs[p].ep = x /\ procs[p].pgUp /\ ~procs'[p].pgUp
       /\ (pc = "stopping" /\ pc' = "removing") => (disk' = disk /\ cur'.destroy)
       /\ StopReturns =>
          /\ FailedStop(last') =>
                /\ disk' = disk
                /\ endpoints' = endpoints
          /\ (disk[last'.ep].dir /\ ~disk'[last'.ep].dir) =>
                /\ last'.result = "ok"
                /\ last'.args.destroy
                /\ \A p \in DOMAIN procs' :
                      p = disk[last'.ep].pidfile => procs'[p].state # "running"]_vars

C37_Witness ==
    /\ FailedStop(last)
    /\ last.args.destroy
    /\ last.result = "wait_failed"
    /\ Occurs("sigterm", last.trace)
    /\ procs[last.child].state = "running"
    /\ disk[last.ep].dir
    /\ disk[last.ep].meta # <<>>
    /\ disk[last.ep].pgconf # <<>>
    /\ disk[last.ep].pgdata
    /\ disk[last.ep].config # <<>>

\* A step in which a start that got as far as the spawn returns an error
FailsAfterSpawn ==
    /\ last' # last
    /\ last'.op = "start"
    /\ last'.result # "ok"
    /\ Occurs("spawn", last'.trace)

\* config.json holds the Spec made from the arguments of a start
SpecRewritten(d, args) ==
    /\ d.config # <<>>
    /\ d.config[1].pageserver_connection_info = args.pageserver_conninfo
    /\ d.config[1].safekeepers_generation = args.safekeepers_generation

\* C38: a start that fails after the spawn leaves what it did in place, the
\* process apart: the pgdata found at the call has been removed, config.json
\* has been rewritten, and compute_ctl.pid, where start wrote it, names the
\* child that the guard killed and reaped; a later stop reads that pid and
\* signals it though it is no process of the endpoint any more.  When the
\* write of compute_ctl.pid is what failed, the file is as before the call, or
\* empty, or holds the pid short of its last digit, and a later stop waits
\* for, and signals, the process of that number, which start never spawned.
C38_FailedStartLeavesEffects ==
    [][/\ StartSuspends =>
            /\ ~disk'[cur'.ep].pgdata
            /\ SpecRewritten(disk'[cur'.ep], cur'.args)
            /\ disk'[cur'.ep].pidfile = cur'.child
            /\ procs'[cur'.child].state = "running"
       /\ FailsAfterSpawn =>
            /\ procs'[last'.child].state = "reaped"
            /\ disk'[last'.ep].config # <<>>
            /\ disk'[last'.ep].config[1].pageserver_connection_info =
                  last'.args.pageserver_conninfo[1]
            /\ IF Occurs("write_pidfile", last'.trace)
               THEN /\ disk'[last'.ep].pidfile = last'.child
                    /\ disk'[last'.ep] = disk[last'.ep]
               ELSE /\ \/ /\ disk'[last'.ep].pidfile = disk[last'.ep].pidfile
                          /\ disk'[last'.ep].torn = disk[last'.ep].torn
                       \/ /\ disk'[last'.ep].pidfile = 0
                          /\ "compute_ctl.pid" \in disk'[last'.ep].torn
                       \/ /\ disk'[last'.ep].pidfile = last'.child \div 10
                          /\ disk'[last'.ep].pidfile \notin {0} \cup DOMAIN procs'
                          /\ "compute_ctl.pid" \notin disk'[last'.ep].torn
                    /\ ~disk'[last'.ep].pgdata
       /\ (StopReturns /\ Occurs("wait", last'.trace)) =>
            /\ last'.child = disk[last'.ep].pidfile
            /\ last'.child # 0
            /\ (last'.args.destroy \/ last'.args.mode # "Fast")
                  => Occurs("sigterm", last'.trace)
            /\ last'.child \notin Pids => procs' = procs
            /\ (last'.child \in Pids /\ procs[last'.child].guard = "fired") =>
                  /\ procs'[last'.child].guard = "fired"
                  /\ procs'[last'.child].state = "reaped"]_vars

C38_Witness ==
    /\ last.op = "stop"
    /\ Occurs("sigterm", last.trace)
    /\ last.child \in Pids
    /\ procs[last.child].guard = "fired"
    /\ procs[last.child].state = "reaped"
    /\ disk[last.ep].dir
    /\ disk[last.ep].pidfile = last.child
    /\ disk[last.ep].config # <<>>

\* The ids a history of the guard service names
IdsIssued == {guard_log.issued[i] : i \in DOMAIN guard_log.issued}
IdsHandled == {guard_log.handled[i] : i \in DOMAIN guard_log.handled}
IdsHeld == {manager.held[i].guard_id : i \in DOMAIN manager.held}

\* The sends made for an id
SendsOf(guard_id) == {i \in DOMAIN guard_log.sends : guard_log.sends[i].guard_id = guard_id}

SendAccepted(s) == s.ok

\* C39: whatever the order of create_guard calls, drops of ResidenceGuards and
\* the manager's drop_guard calls for the GuardDrop messages it receives, the
\* guards set is the set of ids issued whose GuardDrop has not been handled;
\* is_empty() therefore holds only when no ResidenceGuard is held; and a
\* dropped guard has sent one GuardDrop, with its own id, a held guard none.
C39_GuardsAreUnhandledIds ==
    /\ access.guards = IdsIssued \ IdsHandled
    /\ is_empty(access) => manager.held = <<>>
    /\ Cardinality(IdsHeld) = Len(manager.held)
    /\ \A i \in DOMAIN guard_log.sends : guard_log.sends[i].guard_id \in IdsIssued
    /\ \A id \in IdsIssued :
          Cardinality(SendsOf(id)) = IF id \in IdsHeld THEN 0 ELSE 1
    /\ LET accepted == SelectSeq(guard_log.sends, SendAccepted)
       IN  /\ Len(accepted) = Len(guard_log.handled) + Len(manager.manager_rx)
           /\ \A i \in DOMAIN accepted :
                 accepted[i].guard_id =
                     IF i <= Len(guard_log.handled)
                     THEN guard_log.handled[i]
                     ELSE manager.manager_rx[i - Len(guard_log.handled)].guard_id

C39_Witness ==
    /\ is_empty(access)
    /\ manager.held = <<>>
    /\ Len(guard_log.issued) >= 2
    /\ Len(guard_log.handled) = Len(guard_log.issued)
    /\ guard_log.handled[1] > guard_log.handled[2]

\* The id the last drop_guard call made outside the handling of a message had
LastStray(log) == log.strays[Len(log.strays)]

\* C40: create_guard issues strictly increasing ids, none twice, so drop_guard
\* called once for each GuardDrop message received never fails its assert!;
\* called a second time for an id, or with an id that was never issued, it
\* fails the assert!.
C40_DropGuardAssertion ==
    /\ [](/\ \A i, j \in DOMAIN guard_log.issued :
                i < j => guard_log.issued[i] < guard_log.issued[j]
          /\ guard_log.strays = <<>> => ~manager.panicked)
    /\ [][/\ guard_log'.strays # guard_log.strays =>
               (manager'.panicked <=>
                   \/ LastStray(guard_log') \notin IdsIssued
                   \/ LastStray(guard_log') \in IdsHandled
                   \/ \E i \in DOMAIN guard_log.strays :
                         guard_log.strays[i] = LastStray(guard_log'))
          /\ guard_log'.handled # guard_log.handled =>
               (manager'.panicked <=>
                   \E i \in DOMAIN guard_log.strays :
                      guard_log.strays[i] = Head(manager.manager_rx).guard_id)]_vars

C40_Witness ==
    /\ manager.panicked
    /\ guard_log.strays # <<>>
    /\ LastStray(guard_log) \in IdsHandled
    /\ Len(guard_log.issued) >= 2

====
